---- MODULE Spec2Model ----
(***************************************************************************)
(* Model of the Kyrhanu backend core: the dungeon-run state machine         *)
(* (POST /runs/start, /runs/act, /runs/finish), the boss attack (POST      *)
(* /bosses/attack), the daily character (GET /me, POST                     *)
(* /characters/generate with and without force, GET /equipment), the daily *)
(* quests (GET /quests/today, POST /rewards/claim), the tables they read   *)
(* and write, the damage formula, the mulberry32 generator and             *)
(* generateDailyCharacter.                                                 *)
(*                                                                         *)
(* Every handler is an async function; each `await pool.query(...)` is one *)
(* statement against the database and the only place where another request *)
(* can run in between.  A handler is therefore modelled as one action per  *)
(* awaited statement, with the handler's local variables kept in req[q].   *)
(* Spec lets the requests interleave at these points; SpecSeq is the same  *)
(* program driven by clients that wait for each reply before sending the   *)
(* next request.                                                           *)
(*                                                                         *)
(* The foreign keys of the schema are part of the tables: an insert whose   *)
(* parent row is gone fails and the handler replies 500, and deleting a    *)
(* character deletes its runs and their encounters (on delete cascade).    *)
(*                                                                         *)
(* Not modelled: the uuid / timestamp columns and the seeds of runs and     *)
(* encounters (fresh or random values that no handler reads back), the     *)
(* flavour text in encounters.data, and the rows of equipment_slots, items,*)
(* item_instances and inventory_items, left out of the modelled replies.   *)
(***************************************************************************)
EXTENDS Integers, Sequences, FiniteSets, Bags, TLC

\* ---------------------------------------------------------------- bounds
MaxRuns == 2      \* runs ever started, requests handled one at a time
MaxConcRuns == 1  \* runs ever started, requests interleaving
MaxReq  == 2      \* requests in flight at once
MaxDay  == 2      \* UTC days the clock passes through
MaxActs == 6      \* /runs/act requests per run that get past the handler's guards
MaxAtk  == 10     \* damage formula inputs: atk in -1..MaxAtk
MaxLuck == 4      \* damage formula inputs: luck in -MaxLuck..MaxLuck
MaxBossHp == 60   \* max_hp of the live boss (250000 in the seed data)
MaxDraws == 12    \* draws made from one generator
LongDraws == 4917750  \* draws made in one go from a generator in long use

Users   == {"u1", "u2"}
Req     == 1..MaxReq
RunIds  == 1..MaxRuns
ActionEnum == {"ATTACK", "DEFEND", "FLEE"}
BossIds == {"b1"}
\* The id in the token of a user whose users row is gone.
NoUser == "u0"
\* Values of Math.floor(Math.random() * 2_000_000_000): the lowest and the highest.
Seeds   == {0, 1999999999}
\* The run handlers never read a character's seed: one value where only they are checked.
RunSeeds == {0}

\* ------------------------------------------------------ program constants
COMPLETION_THRESHOLD == 5
rewardGold == 40
rewardDust == 12
StarterGold == 250
StarterShards == 10
RerollCost == 2
InventoryCapacity == 60
CritCap == 30

Null == <<>>
Some(x) == <<x>>

\* body.item_instance_id of POST /equipment: null or the id of an item instance.
ItemArgs == {Null, Some("i1")}

VARIABLES
  today,         \* (now() at time zone 'utc')::date
  inventories,   \* users that have an inventories row
  characters,    \* table characters: set of [id, user_id, day_key, archetype, stats_seed,
                 \* generated_stats]; an id (a fresh uuid in the code) is the pair
                 \* <<user, number of the user's insert>>
  lastCharId,    \* per user, the number of character rows ever inserted for the user
  runs,          \* table runs: function id -> row, rows that exist only; an id (a
                 \* fresh uuid in the code) is the number of the insert
  lastRunId,     \* the number of runs rows ever inserted
  encounters,    \* table encounters: bag of [run_id, idx, kind]
  transactions,  \* table transactions: bag of [user_id, currency_code, amount, reason, run_id]
  wallets,       \* table wallets: function (user_id, currency_code) -> balance, rows that exist only
  req,           \* the handlers in flight: program counter and locals per request slot
  reply,         \* the reply sent by the step just taken, with the request it answers:
                 \* Null or Some([op, user, run_id, action, code, body])
  okActs,        \* history: per run, the number of /runs/act replies with status 200
  attack,        \* last evaluation of damageFormula: Null or Some([stats, roll, result])
  live_bosses,   \* table live_bosses: per boss id, the row [hp, max_hp, status]
  boss_damage,   \* table boss_damage: bag of [live_boss_id, user_id, damage]
  prng,          \* a generator made by mulberry32: Null or Some([seed, t, n, out]), t the
                 \* closure's state, n the draws made, out the numerator of the last draw
  call,          \* the call of generateDailyCharacter that is running: Null or
                 \* Some([seed, t, draws]), t the state of its generator r, draws the
                 \* numerators of the values r() has returned so far
  gen,           \* the call of generateDailyCharacter that has just returned, until
                 \* the next one begins: Null or Some([seed, out, t, repeat]), t the
                 \* state in which the call left its generator, repeat whether the
                 \* seed had been used in a call before
  generated,     \* history: the pairs <<seed, output>> of all calls of generateDailyCharacter
  user_quests,   \* table user_quests: function id -> [user_id, quest_template_id,
                 \* day_key, claimed_at]; an id (a fresh uuid in the code) is the
                 \* triple <<user, template, day>>, claimed_at is Null or Some(day)
  user_battle_pass  \* table user_battle_pass: function user_id -> xp in the active
                 \* season, rows that exist only

dbVars == <<today, inventories, characters, lastCharId, runs, lastRunId, encounters, transactions,
           wallets>>
bossVars == <<live_bosses, boss_damage>>
genVars == <<prng, call, gen, generated>>
questVars == <<user_quests, user_battle_pass>>
vars == <<today, inventories, characters, lastCharId, runs, lastRunId, encounters, transactions,
          wallets,
          req, reply, okActs, attack, live_bosses, boss_damage, prng, call, gen, generated,
          user_quests, user_battle_pass>>

\* ------------------------------------------------------------ utilities
Max(a, b) == IF a >= b THEN a ELSE b
Min(a, b) == IF a <= b THEN a ELSE b

IdleReq == [pc |-> "idle", op |-> "none", user |-> "none", run_id |-> 0,
            action |-> "none", run |-> Null, ch |-> Null,
            boss_id |-> "none", hit |-> Null, updated |-> Null,
            templates |-> <<>>, uq |-> Null, item |-> Null, slot |-> 0, day |-> 0,
            key |-> 0, starter |-> 0]

InFlight(q) == req[q].pc # "idle"

\* A new request takes the lowest free slot (the slots are interchangeable).
FreeSlot(q) == ~InFlight(q) /\ \A p \in Req : p < q => InFlight(p)

\* reply.code(c).send(body): the handler returns, its locals are dropped.
Send(q, op, u, rid, a, c, body) ==
  /\ req' = [req EXCEPT ![q] = IdleReq]
  /\ reply' = Some([op |-> op, user |-> u, run_id |-> rid, action |-> a, code |-> c,
                    body |-> body])

\* An awaited statement after which the handler goes on at program counter pc.
Goto(q, pc) ==
  /\ req' = [req EXCEPT ![q].pc = pc]
  /\ reply' = Null

\* ------------------------------------------------------------ mulberry32
\* 32-bit arithmetic.  A JavaScript number that is an integer n is the pair
\* <<hi, lo>> with n = hi * 65536 + lo and lo in 0..65535; hi is any integer, so
\* the pair also holds the values below 0 and above 2^32 - 1 that
\* `x + Math.imul(...)` produces before an operator takes them to 32 bits.
Num(n) == <<n \div 65536, n % 65536>>

AddNum(a, b) == <<a[1] + b[1] + (a[2] + b[2]) \div 65536, (a[2] + b[2]) % 65536>>

\* ToUint32 and ToInt32 of ECMAScript: the value modulo 2^32, unsigned or signed.
ToUint32(a) == <<a[1] % 65536, a[2]>>
ToInt32(a)  == <<IF a[1] % 65536 >= 32768 THEN (a[1] % 65536) - 65536 ELSE a[1] % 65536, a[2]>>

RECURSIVE Xor16(_, _, _)
Xor16(a, b, n) ==
  IF n = 0 THEN 0 ELSE ((a + b) % 2) + 2 * Xor16(a \div 2, b \div 2, n - 1)

RECURSIVE Or16(_, _, _)
Or16(a, b, n) ==
  IF n = 0 THEN 0
  ELSE (IF a % 2 = 1 \/ b % 2 = 1 THEN 1 ELSE 0) + 2 * Or16(a \div 2, b \div 2, n - 1)

\* a ^ b and a | b: both operands to 32 bits, the result a signed 32-bit integer
BitXor(a, b) ==
  ToInt32(<<Xor16(ToUint32(a)[1], ToUint32(b)[1], 16), Xor16(a[2], b[2], 16)>>)
BitOr(a, b) ==
  ToInt32(<<Or16(ToUint32(a)[1], ToUint32(b)[1], 16), Or16(a[2], b[2], 16)>>)

Pow2(k) == IF k = 7 THEN 128 ELSE IF k = 14 THEN 16384 ELSE IF k = 15 THEN 32768 ELSE 1

\* a >>> k for k in {0, 7, 14, 15}: the operand to unsigned 32 bits, zeros shifted in
ShiftRightU(a, k) ==
  LET u == ToUint32(a)
  IN <<u[1] \div Pow2(k), (u[1] % Pow2(k)) * (65536 \div Pow2(k)) + u[2] \div Pow2(k)>>

\* The product of two 16-bit values as a number, computed without a product above 2^31.
MulHalf(x, y) ==
  AddNum(<<((x \div 256) * y) \div 256, (((x \div 256) * y) % 256) * 256>>, Num((x % 256) * y))

\* Math.imul(a, b): the low 32 bits of the product, signed
Imul(a, b) ==
  LET ua == ToUint32(a)
      ub == ToUint32(b)
      cross == (MulHalf(ua[1], ub[2])[2] + MulHalf(ua[2], ub[1])[2]) % 65536
  IN ToInt32(AddNum(MulHalf(ua[2], ub[2]), <<cross, 0>>))

\* The closure's variable t is a JavaScript number that only grows: `t += ...`
\* never brings it back to 32 bits.  It is the triple <<q, hi, lo>> with
\* t = q * 2^32 + hi * 65536 + lo, hi and lo in 0..65535 and q >= 0.
State(a) == <<0, a[1], a[2]>>

\* The exact sum of a state and a number n with 0 <= n < 2^31.
AddState(t, n) ==
  LET lo == t[3] + (n % 65536)
      hi == t[2] + (n \div 65536) + (lo \div 65536)
  IN <<t[1] + (hi \div 65536), hi % 65536, lo % 65536>>

\* The distance between neighbouring doubles at q * 2^32: 1 below 2^53, then 2, 4, ...
RECURSIVE Spacing(_)
Spacing(q) == IF q < 2097152 THEN 1 ELSE 2 * Spacing(q \div 2)

\* The double nearest to the exact sum t (a value below 2^63), ties to the even
\* significand: the result of a floating-point addition.
RoundDouble(t) ==
  LET d == Spacing(t[1])
      rem == t[3] % d
      down == <<t[1], t[2], t[3] - rem>>
      up == AddState(down, d)
  IN IF 2 * rem < d THEN down
     ELSE IF 2 * rem > d THEN up
     ELSE IF (t[3] \div d) % 2 = 0 THEN down ELSE up

\* The exact sum of two states and the exact product of a state with m <= 4096.
SumState(a, b) ==
  LET lo == a[3] + b[3]
      hi == a[2] + b[2] + (lo \div 65536)
  IN <<a[1] + b[1] + (hi \div 65536), hi % 65536, lo % 65536>>

MulState(t, m) ==
  LET lo == t[3] * m
      hi == t[2] * m + (lo \div 65536)
  IN <<t[1] * m + (hi \div 65536), hi % 65536, lo % 65536>>

\* t + k * 0x6D2B79F5 for k < 2^24, exact.
PlusIncrements(t, k) ==
  LET c == State(Num(1831565813))
  IN SumState(t, SumState(MulState(MulState(c, k \div 4096), 4096), MulState(c, k % 4096)))

\* ToUint32(t), which `t ^ ...`, `t >>> 15` and `1 | t` apply to their operand t.
Word(t) == <<t[2], t[3]>>

\* Mutant: one generator state shared by all calls: a generator made after a
\* call of generateDailyCharacter goes on from the state that call left.
mulberry32_Shared(seed) ==
  IF gen = Null THEN State(ShiftRightU(Num(seed), 0)) ELSE gen[1].t

\* mulberry32(seed): the state t of the closure returned, `seed >>> 0`
mulberry32(seed) == State(ShiftRightU(Num(seed), 0))

\* One call of the closure: `t += 0x6D2B79F5`, an addition of doubles; t is not
\* brought back to 32 bits.
NextT(t) == RoundDouble(AddState(t, 1831565813))

\* Mutant: the last `>>> 0` is missing, the numerator is a signed integer.
Numerator_Signed(t) ==
  LET w  == Word(t)
      x1 == Imul(BitXor(w, ShiftRightU(w, 15)), BitOr(Num(1), w))
      x2 == BitXor(x1, AddNum(x1, Imul(BitXor(x1, ShiftRightU(x1, 7)), BitOr(Num(61), x1))))
  IN BitXor(x2, ShiftRightU(x2, 14))

\* The integer the closure divides by 4294967296, from the state t after the increment.
Numerator(t) ==
  LET w  == Word(t)
      x1 == Imul(BitXor(w, ShiftRightU(w, 15)), BitOr(Num(1), w))
      x2 == BitXor(x1, AddNum(x1, Imul(BitXor(x1, ShiftRightU(x1, 7)), BitOr(Num(61), x1))))
  IN ShiftRightU(BitXor(x2, ShiftRightU(x2, 14)), 0)

\* Math.floor(r() * k) for the numerator x of r() and a small integer k:
\* x / 2^32 and its product with k are exact in a double.
FloorTimes(x, k) == (k * x[1] + (k * x[2]) \div 65536) \div 65536

\* Mutant: one value too many, Math.floor(r() * (max - min + 2)) + min.
randInt_OneMore(x, min, max) == FloorTimes(x, max - min + 2) + min

\* randInt(r, min, max) and pick(r, arr), on the numerator x of the draw r()
randInt(x, min, max) == FloorTimes(x, max - min + 1) + min
pick(x, arr) == arr[FloorTimes(x, Len(arr)) + 1]

\* --------------------------------------------------- generateDailyCharacter
\* Mutant: a catalog in which MOLFAR has def 2.
ARCHETYPES_LowDef == <<
  [id |-> "KOZAK",     base |-> [hp |-> 120, atk |-> 14, def |-> 10, spd |-> 10, crit |-> 5, luck |-> 6]],
  [id |-> "MOLFAR",    base |-> [hp |-> 95,  atk |-> 18, def |-> 2,  spd |-> 11, crit |-> 7, luck |-> 10]],
  [id |-> "BEREHYNIA", base |-> [hp |-> 110, atk |-> 12, def |-> 12, spd |-> 10, crit |-> 5, luck |-> 9]],
  [id |-> "PLASTUN",   base |-> [hp |-> 100, atk |-> 15, def |-> 9,  spd |-> 14, crit |-> 9, luck |-> 7]] >>

ARCHETYPES == <<
  [id |-> "KOZAK",     base |-> [hp |-> 120, atk |-> 14, def |-> 10, spd |-> 10, crit |-> 5, luck |-> 6]],
  [id |-> "MOLFAR",    base |-> [hp |-> 95,  atk |-> 18, def |-> 7,  spd |-> 11, crit |-> 7, luck |-> 10]],
  [id |-> "BEREHYNIA", base |-> [hp |-> 110, atk |-> 12, def |-> 12, spd |-> 10, crit |-> 5, luck |-> 9]],
  [id |-> "PLASTUN",   base |-> [hp |-> 100, atk |-> 15, def |-> 9,  spd |-> 14, crit |-> 9, luck |-> 7]] >>

\* The four passives, by their position in the array.
passives == <<"passive_0", "passive_1", "passive_2", "passive_3">>

\* roll(base) on the numerator x of its draw
rollStat(base, x) == base + randInt(x, -3, 5)

\* Mutant: crit and luck are stored as the offset from 5.
StatFloor_Offset(v) == v - 5

\* Math.max(0, v), the floor of crit and luck
StatFloor(v) == Max(0, v)

\* The state of the call's generator after n draws, and the numerator of draw n.
RECURSIVE StateAfter(_, _)
StateAfter(t0, n) == IF n = 0 THEN t0 ELSE NextT(StateAfter(t0, n - 1))
DrawOf(t0, n) == Numerator(StateAfter(t0, n))

\* generateDailyCharacter(seed): a generator of its own, then eight draws in the
\* order archetype, hp, atk, def, spd, crit, luck, passive.  archetype_name is
\* the name of archetype_id and is not modelled.
DrawsPerCall == 8

\* The value generateDailyCharacter returns when its draws have the numerators
\* d[1], ..., d[8].
CharacterFromDraws(d) ==
  LET archetype == pick(d[1], ARCHETYPES)
  IN [archetype_id |-> archetype.id,
      stats |-> [hp   |-> rollStat(archetype.base.hp, d[2]),
                 atk  |-> rollStat(archetype.base.atk, d[3]),
                 def  |-> rollStat(archetype.base.def, d[4]),
                 spd  |-> rollStat(archetype.base.spd, d[5]),
                 crit |-> StatFloor(rollStat(archetype.base.crit, d[6])),
                 luck |-> StatFloor(rollStat(archetype.base.luck, d[7]))],
      passive |-> pick(d[8], passives)]

generateDailyCharacter(seed) ==
  LET r == mulberry32(seed)
  IN CharacterFromDraws([i \in 1..DrawsPerCall |-> DrawOf(r, i)])

\* generateDailyCharacter on each seed that createTodayCharacter draws.
GeneratedStats == [seed \in Seeds |-> generateDailyCharacter(seed)]

\* The generated_stats column of a character row, parsed.
generated_stats(ch) == ch.generated_stats

\* ------------------------------------------------------------ the tables
\* Mutant: the day_key condition is missing from the select.
getTodayCharacter_AnyDay(u, key) ==
  LET rows == {c \in characters : c.user_id = u}
  IN IF rows = {} THEN Null ELSE Some(CHOOSE c \in rows : TRUE)

\* select * from characters where user_id=$1 and day_key=$2 limit 1, for the
\* day key sent with the statement: in getTodayCharacter the value dayKeyUTC()
\* had when the function was called, in POST /runs/start and POST
\* /bosses/attack the date of the database when the statement runs.
getTodayCharacter(u, key) ==
  LET rows == {c \in characters : c.user_id = u /\ c.day_key = key}
  IN IF rows = {} THEN Null ELSE Some(CHOOSE c \in rows : TRUE)

\* The row createTodayCharacter inserts: gen = generateDailyCharacter(seed), and
\* the columns day_key = key, archetype = gen.archetype_id, stats_seed = seed,
\* generated_stats = gen.
NewCharacterRow(u, seed, key) ==
  [id |-> <<u, lastCharId[u] + 1>>, user_id |-> u, day_key |-> key,
   archetype |-> GeneratedStats[seed].archetype_id, stats_seed |-> seed,
   generated_stats |-> GeneratedStats[seed]]

\* Mutant: on conflict do update set stats_seed = excluded.stats_seed.
createTodayCharacterRow_SeedOverwritten(u, seed, key) ==
  IF getTodayCharacter(u, key) # Null
  THEN [getTodayCharacter(u, key)[1] EXCEPT !.stats_seed = seed]
  ELSE NewCharacterRow(u, seed, key)

\* insert into characters ... on conflict (user_id, day_key) do update set
\* user_id=excluded.user_id returning *: the row returned is the new row, or
\* the row already there, unchanged.
createTodayCharacterRow(u, seed, key) ==
  IF getTodayCharacter(u, key) # Null THEN getTodayCharacter(u, key)[1]
  ELSE NewCharacterRow(u, seed, key)

\* Mutant: on conflict do update set balance = excluded.balance.
InsertWallet_Overwrite(w, u, c, b) ==
  [k \in DOMAIN w \cup {<<u, c>>} |-> IF k = <<u, c>> THEN b ELSE w[k]]

\* insert into wallets ... on conflict (user_id, currency_code) do nothing
InsertWallet(w, u, c, b) ==
  IF <<u, c>> \in DOMAIN w THEN w
  ELSE [k \in DOMAIN w \cup {<<u, c>>} |-> IF k = <<u, c>> THEN b ELSE w[k]]

\* update wallets set balance = balance + $2 where user_id=$1 and currency_code=c
CreditWallet(w, u, c, amount) ==
  IF <<u, c>> \in DOMAIN w THEN [w EXCEPT ![<<u, c>>] = @ + amount] ELSE w

\* Mutant: the select without the user_id condition.
SelectRun_AnyUser(rid, u) ==
  IF rid \in DOMAIN runs THEN Some(runs[rid]) ELSE Null

\* select * from runs where id=$1 and user_id=$2
SelectRun(rid, u) ==
  IF rid \in DOMAIN runs /\ runs[rid].user_id = u THEN Some(runs[rid]) ELSE Null

\* The row with primary key id is added to table t.
InsertRow(t, id, row) == [k \in DOMAIN t \cup {id} |-> IF k = id THEN row ELSE t[k]]

\* The reply of the error handler to a statement that violates a foreign key.
ForeignKeyViolation(q) ==
  Send(q, req[q].op, req[q].user, req[q].run_id, req[q].action, 500,
       [error |-> "foreign_key_violation"])

EncounterRow(rid, idx, kind) == [run_id |-> rid, idx |-> idx, kind |-> kind]

TransactionRow(u, c, amount, rid) ==
  [user_id |-> u, currency_code |-> c, amount |-> amount, reason |-> "run_finish", run_id |-> rid]

\* ------------- GET /me, POST /characters/generate, GET /inventory, GET and POST /equipment
\* Every awaited statement of a handler is a step of its own.  The tables
\* item_instances, inventory_items and equipment_slots are not held; the
\* statements on them are steps that change the handler's position alone (an
\* insert into equipment_slots fails once the character is gone).

\* createTodayCharacter: the insert writes the new row, or on conflict the
\* row already there as the `do update` leaves it.
createTodayCharacter(u, seed, key) ==
  /\ characters' = (characters \ {c \in characters : c.user_id = u /\ c.day_key = key})
                      \cup {createTodayCharacterRow(u, seed, key)}
  /\ lastCharId' = IF getTodayCharacter(u, key) = Null THEN [lastCharId EXCEPT ![u] = @ + 1]
                   ELSE lastCharId

\* The UTC date changes.
NextDay ==
  /\ today < MaxDay
  /\ today' = today + 1
  /\ reply' = Null
  /\ UNCHANGED <<inventories, characters, lastCharId, runs, lastRunId, encounters, transactions, wallets,
                 req, okActs, attack, questVars, bossVars, genVars>>

\* The body of the reply that carries character row ch, per route.
CharacterReply(op, ch, already) ==
  CASE op = "me"        -> [character |-> ch]
    [] op = "generate"  -> [character |-> ch, already |-> already]
    [] op = "generate_force" -> [character |-> ch, already |-> already]
    [] op = "equipment" -> [character_id |-> ch.id]

\* GET /me: select * from users where id=$1; 404 NOT_FOUND without a row (the
\* token of a user whose row is gone), otherwise ensureInventory follows.
MeSelectUser(q, u) ==
  /\ FreeSlot(q)
  /\ IF u \notin Users
     THEN Send(q, "me", u, 0, "none", 404, [error |-> "NOT_FOUND"])
     ELSE /\ req' = [req EXCEPT ![q] = [IdleReq EXCEPT !.op = "me", !.user = u,
                                          !.pc = "select_inventory"]]
          /\ reply' = Null
  /\ UNCHANGED <<dbVars, okActs, attack, questVars, bossVars, genVars>>

\* Where the caller of ensureInventory goes on when it returns.
AfterEnsureInventory(op) == IF op = "me" THEN "char_select" ELSE "inventory_select_items"

\* const key = dayKeyUTC() in getTodayCharacter and createTodayCharacter: the
\* function reads the clock when it is called, which is when the statement
\* before it has returned, and sends the key with its statement.  The step that
\* leads to pc keeps the key for it.
KeyFor(pc) == IF pc \in {"char_select", "char_insert"} THEN today ELSE 0

\* ensureInventory: select * from inventories where user_id=$1; with a row the
\* function returns, without one the insert follows.
InventorySelected(q, op, u) ==
  /\ req' = [req EXCEPT ![q] = [IdleReq EXCEPT !.op = op, !.user = u,
               !.pc = IF u \in inventories THEN AfterEnsureInventory(op)
                      ELSE "insert_inventory",
               !.key = IF u \in inventories THEN KeyFor(AfterEnsureInventory(op)) ELSE 0]]
  /\ reply' = Null

\* GET /me: await ensureInventory(au.id), its select
MeSelectInventory(q) ==
  /\ req[q].pc = "select_inventory"
  /\ InventorySelected(q, "me", req[q].user)
  /\ UNCHANGED <<dbVars, okActs, attack, questVars, bossVars, genVars>>

\* GET /inventory: const inv = await ensureInventory(au.id), its select
InventorySelectInventory(q, u) ==
  /\ FreeSlot(q)
  /\ InventorySelected(q, "inventory", u)
  /\ UNCHANGED <<dbVars, okActs, attack, questVars, bossVars, genVars>>

\* ensureInventory: insert into inventories ...: inventories.user_id is unique,
\* a second row for the user is an error, which the error handler answers with
\* status 500.
EnsureInsertInventory(q) ==
  /\ req[q].pc = "insert_inventory"
  /\ IF req[q].user \in inventories
     THEN /\ Send(q, req[q].op, req[q].user, 0, "none", 500, [error |-> "unique_violation"])
          /\ UNCHANGED inventories
     ELSE /\ inventories' = inventories \cup {req[q].user}
          /\ Goto(q, "insert_wallets")
  /\ UNCHANGED <<today, characters, lastCharId, runs, lastRunId, encounters, transactions, wallets,
                 okActs, attack, questVars, bossVars, genVars>>

\* ensureInventory: const starterCodes = [...]
starterCodes == <<"starter_hat", "starter_blade", "starter_charm">>

\* Table items: the codes of the starter rows of the seed data.
starterItems == {"starter_hat", "starter_blade", "starter_charm"}

\* ensureInventory: insert into wallets (gold 250, shards 10) on conflict do
\* nothing; the loop over the starter codes follows.
EnsureInsertWallets(q) ==
  /\ req[q].pc = "insert_wallets"
  /\ wallets' = InsertWallet(InsertWallet(wallets, req[q].user, "gold", StarterGold),
                             req[q].user, "shards", StarterShards)
  /\ req' = [req EXCEPT ![q].pc = "starter_select_item", ![q].starter = 1]
  /\ reply' = Null
  /\ UNCHANGED <<today, inventories, characters, lastCharId, runs, lastRunId, encounters, transactions,
                 okActs, attack, questVars, bossVars, genVars>>

\* ensureInventory, the end of one turn of the loop: the next code is looked
\* up, or after the last one the function returns to its caller, which reads
\* the clock only then.
EnsureNextCode(q) ==
  /\ req' = IF req[q].starter < Len(starterCodes)
            THEN [req EXCEPT ![q].pc = "starter_select_item", ![q].starter = @ + 1]
            ELSE [req EXCEPT ![q].pc = AfterEnsureInventory(req[q].op), ![q].starter = 0,
                             ![q].key = KeyFor(AfterEnsureInventory(req[q].op))]
  /\ reply' = Null

\* ensureInventory: select * from items where code=$1; if (!item) continue
EnsureSelectItem(q) ==
  /\ req[q].pc = "starter_select_item"
  /\ IF starterCodes[req[q].starter] \in starterItems
     THEN Goto(q, "starter_insert_instance")
     ELSE EnsureNextCode(q)
  /\ UNCHANGED <<dbVars, okActs, attack, questVars, bossVars, genVars>>

\* ensureInventory: insert into item_instances (...) returning *
EnsureInsertInstance(q) ==
  /\ req[q].pc = "starter_insert_instance"
  /\ Goto(q, "starter_insert_inventory_item")
  /\ UNCHANGED <<dbVars, okActs, attack, questVars, bossVars, genVars>>

\* ensureInventory: insert into inventory_items (...) on conflict do nothing
EnsureInsertInventoryItem(q) ==
  /\ req[q].pc = "starter_insert_inventory_item"
  /\ EnsureNextCode(q)
  /\ UNCHANGED <<dbVars, okActs, attack, questVars, bossVars, genVars>>

\* GET /inventory: the items of the inventory are selected; reply {inventory, items}.
InventorySelectItems(q) ==
  /\ req[q].pc = "inventory_select_items"
  /\ Send(q, "inventory", req[q].user, 0, "none", 200,
          [inventory |-> [user_id |-> req[q].user, capacity |-> InventoryCapacity]])
  /\ UNCHANGED <<dbVars, okActs, attack, questVars, bossVars, genVars>>

\* getTodayCharacter in /me and /characters/generate, its select with the key
\* it was called with: with a row the handler replies, without one it calls
\* createTodayCharacter, which reads the clock anew.
CharSelected(q, op, u, key) ==
  IF getTodayCharacter(u, key) # Null
  THEN Send(q, op, u, 0, "none", 200, CharacterReply(op, getTodayCharacter(u, key)[1], TRUE))
  ELSE /\ req' = [req EXCEPT ![q] = [IdleReq EXCEPT !.op = op, !.user = u,
                    !.pc = "char_insert", !.key = KeyFor("char_insert")]]
       /\ reply' = Null

\* GET /me after ensureInventory: let character = await getTodayCharacter(au.id)
MeSelectCharacter(q) ==
  /\ req[q].pc = "char_select"
  /\ req[q].op = "me"
  /\ CharSelected(q, "me", req[q].user, req[q].key)
  /\ UNCHANGED <<dbVars, okActs, attack, questVars, bossVars, genVars>>

\* A request arrives at a route whose handler calls getTodayCharacter first:
\* requireAuth runs no statement, getTodayCharacter reads the key and sends
\* its select, which is awaited.
CharacterRequest(q, op, u, item) ==
  /\ FreeSlot(q)
  /\ req' = [req EXCEPT ![q] = [IdleReq EXCEPT !.op = op, !.user = u, !.item = item,
                                    !.pc = "char_select", !.key = KeyFor("char_select")]]
  /\ reply' = Null
  /\ UNCHANGED <<dbVars, okActs, attack, questVars, bossVars, genVars>>

\* POST /characters/generate without force arrives.
GenerateArrives(q, u) == CharacterRequest(q, "generate", u, Null)

\* POST /characters/generate without force: const existing = await
\* getTodayCharacter(au.id), its select.
GenerateSelect(q) ==
  /\ req[q].pc = "char_select"
  /\ req[q].op = "generate"
  /\ CharSelected(q, "generate", req[q].user, req[q].key)
  /\ UNCHANGED <<dbVars, okActs, attack, questVars, bossVars, genVars>>

\* Where GET and POST /equipment go on with the character ch they hold.
AfterCharacter(op, item) ==
  IF op = "equipment" THEN "equipment_select_slots"
  ELSE IF item # Null THEN "equipment_select_owner" ELSE "equipment_update_slot"

\* getTodayCharacter in GET and POST /equipment and in the forced
\* /characters/generate, its select with the key it was called with: the row
\* is kept in ch and the handler goes on at pc, without one
\* createTodayCharacter follows, which reads the clock anew.
CharacterKept(q, op, u, item, key, pc) ==
  /\ req' = [req EXCEPT ![q] = [IdleReq EXCEPT !.op = op, !.user = u, !.item = item,
               !.ch = getTodayCharacter(u, key),
               !.pc = IF getTodayCharacter(u, key) # Null THEN pc ELSE "char_insert",
               !.key = IF getTodayCharacter(u, key) # Null THEN 0
                       ELSE KeyFor("char_insert")]]
  /\ reply' = Null

EquipmentCharSelected(q, op, u, item, key) ==
  CharacterKept(q, op, u, item, key, AfterCharacter(op, item))

\* GET /equipment arrives.
EquipmentArrives(q, u) == CharacterRequest(q, "equipment", u, Null)

\* GET /equipment: let ch = await getTodayCharacter(au.id), its select
EquipmentSelect(q) ==
  /\ req[q].pc = "char_select"
  /\ req[q].op = "equipment"
  /\ EquipmentCharSelected(q, "equipment", req[q].user, Null, req[q].key)
  /\ UNCHANGED <<dbVars, okActs, attack, questVars, bossVars, genVars>>

\* GET /equipment: the slots of ch are selected; reply {character_id: ch.id, slots}.
EquipmentSelectSlots(q) ==
  /\ req[q].pc = "equipment_select_slots"
  /\ Send(q, "equipment", req[q].user, 0, "none", 200,
          CharacterReply("equipment", req[q].ch[1], FALSE))
  /\ UNCHANGED <<dbVars, okActs, attack, questVars, bossVars, genVars>>

\* POST /equipment {slot, item_instance_id: item} arrives.
EquipmentPostArrives(q, u, item) == CharacterRequest(q, "equipment_post", u, item)

\* POST /equipment: let ch = await getTodayCharacter(au.id), its select
EquipmentPostSelect(q) ==
  /\ req[q].pc = "char_select"
  /\ req[q].op = "equipment_post"
  /\ EquipmentCharSelected(q, "equipment_post", req[q].user, req[q].item, req[q].key)
  /\ UNCHANGED <<dbVars, okActs, attack, questVars, bossVars, genVars>>

\* POST /equipment with an item: select 1 from item_instances where id=$1 and
\* user_id=$2; owns says whether a row came back, 403 NOT_OWNER without one.
EquipmentSelectOwner(q, owns) ==
  /\ req[q].pc = "equipment_select_owner"
  /\ IF owns THEN Goto(q, "equipment_update_slot")
     ELSE Send(q, "equipment_post", req[q].user, 0, "none", 403, [error |-> "NOT_OWNER"])
  /\ UNCHANGED <<dbVars, okActs, attack, questVars, bossVars, genVars>>

\* POST /equipment: update equipment_slots set item_instance_id=$1 ...; reply {ok: true}.
EquipmentUpdateSlot(q) ==
  /\ req[q].pc = "equipment_update_slot"
  /\ Send(q, "equipment_post", req[q].user, 0, "none", 200, [ok |-> TRUE])
  /\ UNCHANGED <<dbVars, okActs, attack, questVars, bossVars, genVars>>

\* createTodayCharacter: the key was read and the seed drawn when the function
\* was called; insert ... on conflict (user_id, day_key) do update ... returning
\* *, with that key.  The row returned is kept in ch and the loop over the
\* slots follows.
CharInsert(q, seed) ==
  /\ req[q].pc = "char_insert"
  /\ createTodayCharacter(req[q].user, seed, req[q].key)
  /\ req' = [req EXCEPT ![q].ch = Some(createTodayCharacterRow(req[q].user, seed, req[q].key)),
                        ![q].slot = 1, ![q].key = 0, ![q].pc = "char_insert_slot"]
  /\ reply' = Null
  /\ UNCHANGED <<today, inventories, wallets, runs, lastRunId, encounters, transactions,
                 okActs, attack, questVars, bossVars, genVars>>

\* createTodayCharacter: const slots = ["head", "weapon", "charm", "armor"]
slots == <<"head", "weapon", "charm", "armor">>

\* createTodayCharacter: insert into equipment_slots (id, character_id, slot,
\* item_instance_id) ... on conflict (character_id, slot) do nothing, for the
\* next slot of the loop.  equipment_slots.character_id references
\* characters(id): an error when the character is gone.  After the last slot
\* the function returns ch: /me and /characters/generate reply with it, the
\* /equipment routes go on.
CharInsertSlot(q) ==
  /\ req[q].pc = "char_insert_slot"
  /\ IF ~(\E c \in characters : c.id = req[q].ch[1].id)
     THEN ForeignKeyViolation(q)
     ELSE IF req[q].slot < Len(slots)
     THEN /\ req' = [req EXCEPT ![q].slot = @ + 1]
          /\ reply' = Null
     ELSE IF req[q].op \in {"equipment", "equipment_post"}
     THEN /\ req' = [req EXCEPT ![q].slot = 0,
                                ![q].pc = AfterCharacter(req[q].op, req[q].item)]
          /\ reply' = Null
     ELSE Send(q, req[q].op, req[q].user, 0, "none", 200,
               CharacterReply(req[q].op, req[q].ch[1], FALSE))
  /\ UNCHANGED <<dbVars, okActs, attack, questVars, bossVars, genVars>>

\* ------------------------------------- POST /characters/generate {force: true}
\* The request arrives.
ForceArrives(q, u) == CharacterRequest(q, "generate_force", u, Null)

\* const existing = await getTodayCharacter(au.id), its select: with a row the
\* reroll policy follows, without one the handler goes on to
\* createTodayCharacter.
ForceSelect(q) ==
  /\ req[q].pc = "char_select"
  /\ req[q].op = "generate_force"
  /\ CharacterKept(q, "generate_force", req[q].user, Null, req[q].key, "force_select_wallet")
  /\ UNCHANGED <<dbVars, okActs, attack, questVars, bossVars, genVars>>

\* Number(w?.balance ?? 0) for the row w of select balance from wallets where
\* user_id=$1 and currency_code='shards'
ShardsBalance(u) == IF <<u, "shards">> \in DOMAIN wallets THEN wallets[<<u, "shards">>] ELSE 0

\* Mutant: the balance is not tested.
ForceSelectWallet_NoGate(q) ==
  /\ req[q].pc = "force_select_wallet"
  /\ Goto(q, "force_update_wallet")
  /\ UNCHANGED <<dbVars, okActs, attack, questVars, bossVars, genVars>>

\* The shards wallet is selected; 402 NOT_ENOUGH_SHARDS with a balance below RerollCost.
ForceSelectWallet(q) ==
  /\ req[q].pc = "force_select_wallet"
  /\ IF ShardsBalance(req[q].user) < RerollCost
     THEN Send(q, "generate_force", req[q].user, 0, "none", 402, [error |-> "NOT_ENOUGH_SHARDS"])
     ELSE Goto(q, "force_update_wallet")
  /\ UNCHANGED <<dbVars, okActs, attack, questVars, bossVars, genVars>>

\* update wallets set balance = balance - 2 where user_id=$1 and currency_code='shards'
ForceUpdateWallet(q) ==
  /\ req[q].pc = "force_update_wallet"
  /\ wallets' = CreditWallet(wallets, req[q].user, "shards", -RerollCost)
  /\ Goto(q, "force_delete")
  /\ UNCHANGED <<today, inventories, characters, lastCharId, runs, lastRunId, encounters, transactions,
                 okActs, attack, questVars, bossVars, genVars>>

\* The rows of table t without those with a primary key in ids.
DeleteRows(t, ids) == [k \in DOMAIN t \ ids |-> t[k]]

\* The runs that reference the character with id cid.
RunsOfCharacter(cid) == {r \in DOMAIN runs : runs[r].character_id = cid}

\* The rows of encounters without those of the runs in rids.
EncountersWithout(rids) ==
  LET kept == {e \in BagToSet(encounters) : e.run_id \notin rids}
  IN  [e \in kept |-> CopiesIn(e, encounters)]

\* delete from characters where id=$1, the id of the row selected.  The rows
\* that reference the character go with it (on delete cascade): its runs, and
\* with each run its encounters.
ForceDelete(q) ==
  /\ req[q].pc = "force_delete"
  /\ characters' = {c \in characters : c.id # req[q].ch[1].id}
  /\ runs' = DeleteRows(runs, RunsOfCharacter(req[q].ch[1].id))
  /\ encounters' = EncountersWithout(RunsOfCharacter(req[q].ch[1].id))
  /\ req' = [req EXCEPT ![q].pc = "char_insert", ![q].key = KeyFor("char_insert")]
  /\ reply' = Null
  /\ UNCHANGED <<today, inventories, lastCharId, lastRunId, transactions, wallets,
                 okActs, attack, questVars, bossVars, genVars>>

\* --------------------------------------------------------- POST /runs/start
\* Runs inserted, or about to be by a handler in flight.
RunsBegun == lastRunId + Cardinality({q \in Req : req[q].pc = "start_insert_run"})

\* requireAuth, then select * from characters where user_id=$1 and day_key =
\* (now() at time zone 'utc')::date limit 1; without a row the handler replies
\* 400 NO_TODAY_CHARACTER.
StartSelectCharacter(q, u) ==
  /\ FreeSlot(q)
  /\ LET ch == getTodayCharacter(u, today) IN
       IF ch = Null
       THEN Send(q, "start", u, 0, "none", 400, [error |-> "NO_TODAY_CHARACTER"])
       ELSE /\ req' = [req EXCEPT ![q] = [IdleReq EXCEPT !.pc = "start_insert_run",
                                            !.op = "start", !.user = u, !.ch = ch]]
            /\ reply' = Null
  /\ UNCHANGED <<dbVars, okActs, attack, questVars, bossVars, genVars>>

NewRunRow(u, ch) ==
  [user_id |-> u, character_id |-> ch.id, status |-> "active",
   state |-> [room |-> 0, hp_loss |-> 0], outcome |-> Null]

\* insert into runs (...) values (..., 'active', {room: 0, hp_loss: 0}) returning *;
\* runs.character_id references characters(id): an error when the character
\* selected is gone.
StartInsertRun(q) ==
  /\ req[q].pc = "start_insert_run"
  /\ IF \E c \in characters : c.id = req[q].ch[1].id
     THEN /\ runs' = InsertRow(runs, lastRunId + 1, NewRunRow(req[q].user, req[q].ch[1]))
          /\ lastRunId' = lastRunId + 1
          /\ req' = [req EXCEPT ![q].pc = "start_insert_encounter",
                                ![q].run_id = lastRunId + 1,
                                ![q].run = Some(NewRunRow(req[q].user, req[q].ch[1]))]
          /\ reply' = Null
     ELSE /\ ForeignKeyViolation(q)
          /\ UNCHANGED <<runs, lastRunId>>
  /\ UNCHANGED <<today, inventories, characters, lastCharId, encounters, transactions, wallets,
                 okActs, attack, questVars, bossVars, genVars>>

\* Mutant: the first encounter is given index 1.
StartInsertEncounter_IndexOne(q) ==
  /\ req[q].pc = "start_insert_encounter"
  /\ IF req[q].run_id \in DOMAIN runs
     THEN /\ encounters' = encounters (+) SetToBag({EncounterRow(req[q].run_id, 1, "fight")})
          /\ Send(q, "start", req[q].user, req[q].run_id, "none", 200, [run |-> req[q].run[1]])
     ELSE /\ ForeignKeyViolation(q)
          /\ UNCHANGED encounters
  /\ UNCHANGED <<today, inventories, characters, lastCharId, runs, lastRunId, transactions, wallets,
                 okActs, attack, questVars, bossVars, genVars>>

\* insert into encounters (...) values (run.id, 0, 'fight', ...); reply {run}.
\* encounters.run_id references runs(id): an error when the run is gone.
StartInsertEncounter(q) ==
  /\ req[q].pc = "start_insert_encounter"
  /\ IF req[q].run_id \in DOMAIN runs
     THEN /\ encounters' = encounters (+) SetToBag({EncounterRow(req[q].run_id, 0, "fight")})
          /\ Send(q, "start", req[q].user, req[q].run_id, "none", 200, [run |-> req[q].run[1]])
     ELSE /\ ForeignKeyViolation(q)
          /\ UNCHANGED encounters
  /\ UNCHANGED <<today, inventories, characters, lastCharId, runs, lastRunId, transactions, wallets,
                 okActs, attack, questVars, bossVars, genVars>>

\* ----------------------------------------------------------- POST /runs/act
\* The handler's locals, computed from the row it selected.
nextRoom(run) == run.state.room + 1

\* Mutant: the completion test off by one (> instead of >=).
finished_OffByOne(run) == nextRoom(run) > COMPLETION_THRESHOLD

finished(run) == nextRoom(run) >= COMPLETION_THRESHOLD
newState(run) == [run.state EXCEPT !.room = nextRoom(run)]
outcome(run) ==
  [result |-> "victory", rooms |-> nextRoom(run),
   rewards |-> << [currency |-> "gold", amount |-> rewardGold],
                  [currency |-> "dust", amount |-> rewardDust] >>]

\* Mutant: the status guard is missing.
ActGuard_NoStatusCheck(run) ==
  IF run = Null THEN "RUN_NOT_FOUND" ELSE "ok"

\* Mutant: the status guard compares with a status no run ever has.
ActGuard_StatusTypo(run) ==
  IF run = Null THEN "RUN_NOT_FOUND"
  ELSE IF run[1].status = "done" THEN "RUN_NOT_ACTIVE"
  ELSE "ok"

\* The guards after the select: which reply, if any, ends the handler there.
ActGuard(run) ==
  IF run = Null THEN "RUN_NOT_FOUND"
  ELSE IF run[1].status # "active" THEN "RUN_NOT_ACTIVE"
  ELSE "ok"

\* requireAuth, body parsed, select * from runs where id=$1 and user_id=$2;
\* 404 RUN_NOT_FOUND without a row, 400 RUN_NOT_ACTIVE unless it is active.
ActSelect(q, u, rid, a) ==
  /\ FreeSlot(q)
  /\ LET run == SelectRun(rid, u) IN
       CASE ActGuard(run) = "RUN_NOT_FOUND" ->
              Send(q, "act", u, rid, a, 404, [error |-> "RUN_NOT_FOUND"])
         [] ActGuard(run) = "RUN_NOT_ACTIVE" ->
              Send(q, "act", u, rid, a, 400, [error |-> "RUN_NOT_ACTIVE"])
         [] OTHER ->
              /\ req' = [req EXCEPT ![q] = [IdleReq EXCEPT !.pc = "act_update_state",
                           !.op = "act", !.user = u, !.run_id = rid, !.action = a, !.run = run]]
              /\ reply' = Null
  /\ UNCHANGED <<dbVars, okActs, attack, questVars, bossVars, genVars>>

\* update runs set state=st where id=rid: the row with that id, if there is one.
UpdateRunState(rid, st) ==
  IF rid \in DOMAIN runs THEN [runs EXCEPT ![rid].state = st] ELSE runs

\* update runs set status='finished', outcome=out where id=rid
UpdateRunFinished(rid, out) ==
  IF rid \in DOMAIN runs THEN [runs EXCEPT ![rid].status = "finished", ![rid].outcome = Some(out)]
  ELSE runs

\* Mutant: FLEE leaves the room counter where it is.
ActUpdateState_FleeStays(q) ==
  /\ req[q].pc = "act_update_state"
  /\ runs' = IF req[q].action = "FLEE" THEN runs
             ELSE UpdateRunState(req[q].run_id, newState(req[q].run[1]))
  /\ Goto(q, IF finished(req[q].run[1]) THEN "act_set_finished" ELSE "act_insert_encounter")
  /\ UNCHANGED <<today, inventories, characters, lastCharId, lastRunId, encounters, transactions, wallets,
                 okActs, attack, questVars, bossVars, genVars>>

\* update runs set state=newState where id=run.id
ActUpdateState(q) ==
  /\ req[q].pc = "act_update_state"
  /\ runs' = UpdateRunState(req[q].run_id, newState(req[q].run[1]))
  /\ Goto(q, IF finished(req[q].run[1]) THEN "act_set_finished" ELSE "act_insert_encounter")
  /\ UNCHANGED <<today, inventories, characters, lastCharId, lastRunId, encounters, transactions, wallets,
                 okActs, attack, questVars, bossVars, genVars>>

\* update runs set status='finished', finished_at=now(), outcome=$1 where id=run.id
ActSetFinished(q) ==
  /\ req[q].pc = "act_set_finished"
  /\ runs' = UpdateRunFinished(req[q].run_id, outcome(req[q].run[1]))
  /\ Goto(q, "act_insert_transactions")
  /\ UNCHANGED <<today, inventories, characters, lastCharId, lastRunId, encounters, transactions, wallets,
                 okActs, attack, questVars, bossVars, genVars>>

\* insert into transactions: one 'run_finish' row for gold and one for dust
ActInsertTransactions(q) ==
  /\ req[q].pc = "act_insert_transactions"
  /\ transactions' = transactions
        (+) SetToBag({TransactionRow(req[q].user, "gold", rewardGold, req[q].run_id)})
        (+) SetToBag({TransactionRow(req[q].user, "dust", rewardDust, req[q].run_id)})
  /\ Goto(q, "act_ensure_wallets")
  /\ UNCHANGED <<today, inventories, characters, lastCharId, runs, lastRunId, encounters, wallets,
                 okActs, attack, questVars, bossVars, genVars>>

\* insert into wallets (gold, 0), (dust, 0) on conflict do nothing
ActEnsureWallets(q) ==
  /\ req[q].pc = "act_ensure_wallets"
  /\ wallets' = InsertWallet(InsertWallet(wallets, req[q].user, "gold", 0), req[q].user, "dust", 0)
  /\ Goto(q, "act_credit_gold")
  /\ UNCHANGED <<today, inventories, characters, lastCharId, runs, lastRunId, encounters, transactions,
                 okActs, attack, questVars, bossVars, genVars>>

\* update wallets set balance = balance + rewardGold ... currency_code='gold'
ActCreditGold(q) ==
  /\ req[q].pc = "act_credit_gold"
  /\ wallets' = CreditWallet(wallets, req[q].user, "gold", rewardGold)
  /\ Goto(q, "act_credit_dust")
  /\ UNCHANGED <<today, inventories, characters, lastCharId, runs, lastRunId, encounters, transactions,
                 okActs, attack, questVars, bossVars, genVars>>

\* update wallets ... currency_code='dust'; reply {run_id, status: "finished", outcome}
ActCreditDust(q) ==
  /\ req[q].pc = "act_credit_dust"
  /\ wallets' = CreditWallet(wallets, req[q].user, "dust", rewardDust)
  /\ Send(q, "act", req[q].user, req[q].run_id, req[q].action, 200,
          [run_id |-> req[q].run_id, status |-> "finished", outcome |-> outcome(req[q].run[1])])
  /\ okActs' = [okActs EXCEPT ![req[q].run_id] = @ + 1]
  /\ UNCHANGED <<today, inventories, characters, lastCharId, runs, lastRunId, encounters, transactions,
                 attack, questVars, bossVars, genVars>>

\* Mutant: the encounter is indexed with the room before the step (run.state.room).
ActInsertEncounter_OldRoom(q) ==
  /\ req[q].pc = "act_insert_encounter"
  /\ IF req[q].run_id \in DOMAIN runs
     THEN /\ encounters' = encounters
                (+) SetToBag({EncounterRow(req[q].run_id, req[q].run[1].state.room, "event")})
          /\ Send(q, "act", req[q].user, req[q].run_id, req[q].action, 200,
                  [run_id |-> req[q].run_id, status |-> "active",
                   state |-> newState(req[q].run[1])])
          /\ okActs' = [okActs EXCEPT ![req[q].run_id] = @ + 1]
     ELSE /\ ForeignKeyViolation(q)
          /\ UNCHANGED <<encounters, okActs>>
  /\ UNCHANGED <<today, inventories, characters, lastCharId, runs, lastRunId, transactions, wallets,
                 attack, questVars, bossVars, genVars>>

\* insert into encounters (run.id, nextRoom, 'event', ...); reply {run_id, status:
\* "active", state}; an error when the run is gone (encounters.run_id
\* references runs(id)).
ActInsertEncounter(q) ==
  /\ req[q].pc = "act_insert_encounter"
  /\ IF req[q].run_id \in DOMAIN runs
     THEN /\ encounters' = encounters
                (+) SetToBag({EncounterRow(req[q].run_id, nextRoom(req[q].run[1]), "event")})
          /\ Send(q, "act", req[q].user, req[q].run_id, req[q].action, 200,
                  [run_id |-> req[q].run_id, status |-> "active",
                   state |-> newState(req[q].run[1])])
          /\ okActs' = [okActs EXCEPT ![req[q].run_id] = @ + 1]
     ELSE /\ ForeignKeyViolation(q)
          /\ UNCHANGED <<encounters, okActs>>
  /\ UNCHANGED <<today, inventories, characters, lastCharId, runs, lastRunId, transactions, wallets,
                 attack, questVars, bossVars, genVars>>

\* -------------------------------------------------------- POST /runs/finish
\* select * from runs where id=$1 and user_id=$2; reply {run} or 404: a read.
FinishSelect(q, u, rid) ==
  /\ FreeSlot(q)
  /\ LET run == SelectRun(rid, u) IN
       IF run = Null
       THEN Send(q, "finish", u, rid, "none", 404, [error |-> "RUN_NOT_FOUND"])
       ELSE Send(q, "finish", u, rid, "none", 200, [run |-> run[1]])
  /\ UNCHANGED <<dbVars, okActs, attack, questVars, bossVars, genVars>>

\* ------------------------------------------------------------ damageFormula
\* Mutant: Math.floor in place of Math.ceil.
CeilThreeQuarters_Floor(base) == (3 * base) \div 4

\* Math.ceil(base * 0.75) for an integer base >= 1
CeilThreeQuarters(base) == (3 * base + 3) \div 4

\* Mutant: the crit test is roll <= critChance.
damageFormula_RollInclusive(stats, roll) ==
  LET base       == Max(1, stats.atk)
      critChance == Min(CritCap, Max(0, stats.crit))
      crit       == roll <= critChance
      luckBonus  == stats.luck \div 3
  IN [damage |-> base + luckBonus + (IF crit THEN CeilThreeQuarters(base) ELSE 0),
      crit |-> crit]

\* Mutant: the crit chance is not capped (Math.min(30, ...) missing).
damageFormula_NoCap(stats, roll) ==
  LET base       == Max(1, stats.atk)
      critChance == Max(0, stats.crit)
      crit       == roll < critChance
      luckBonus  == stats.luck \div 3
  IN [damage |-> base + luckBonus + (IF crit THEN CeilThreeQuarters(base) ELSE 0),
      crit |-> crit]

\* Mutant: the base is left out of the sum.
damageFormula_NoBase(stats, roll) ==
  LET base       == Max(1, stats.atk)
      critChance == Min(CritCap, Max(0, stats.crit))
      crit       == roll < critChance
      luckBonus  == stats.luck \div 3
  IN [damage |-> luckBonus + (IF crit THEN CeilThreeQuarters(base) ELSE 0),
      crit |-> crit]

\* damageFormula(stats) with the value `roll` drawn for Math.random() * 100.
\* critChance is an integer for integer stats, so roll < critChance is decided
\* by the integer part of roll: roll ranges over 0..99.
damageFormula(stats, roll) ==
  LET base       == Max(1, stats.atk)
      critChance == Min(CritCap, Max(0, stats.crit))
      crit       == roll < critChance
      luckBonus  == stats.luck \div 3
  IN [damage |-> base + luckBonus + (IF crit THEN CeilThreeQuarters(base) ELSE 0),
      crit |-> crit]

AtkValues  == -1..MaxAtk
CritValues == (-2..(CritCap + 2)) \cup {999}
LuckValues == (0 - MaxLuck)..MaxLuck
Rolls      == 0..99

\* One call of damageFormula with the roll drawn.
Attack(stats, roll) ==
  /\ attack' = Some([stats |-> stats, roll |-> roll, result |-> damageFormula(stats, roll)])
  /\ UNCHANGED <<dbVars, req, reply, okActs, questVars, bossVars, genVars>>

\* ------------------------------------------------------ POST /bosses/attack
\* select * from live_bosses where id=$1 and status='active'
SelectActiveBoss(b) ==
  IF b \in DOMAIN live_bosses /\ live_bosses[b].status = "active" THEN Some(live_bosses[b])
  ELSE Null

\* requireAuth, body parsed, the active boss selected; 404 BOSS_NOT_FOUND without a row.
AttackSelectBoss(q, u, b) ==
  /\ FreeSlot(q)
  /\ IF SelectActiveBoss(b) = Null
     THEN Send(q, "attack", u, 0, "none", 404, [error |-> "BOSS_NOT_FOUND"])
     ELSE /\ req' = [req EXCEPT ![q] = [IdleReq EXCEPT !.pc = "attack_select_character",
                                          !.op = "attack", !.user = u, !.boss_id = b]]
          /\ reply' = Null
  /\ UNCHANGED <<dbVars, okActs, attack, questVars, bossVars, genVars>>

\* The character of today is selected; 400 NO_TODAY_CHARACTER without one;
\* otherwise damageFormula is called on its stats, with the roll it draws.
AttackSelectCharacter(q, roll) ==
  /\ req[q].pc = "attack_select_character"
  /\ LET ch == getTodayCharacter(req[q].user, today) IN
       IF ch = Null
       THEN Send(q, "attack", req[q].user, 0, "none", 400, [error |-> "NO_TODAY_CHARACTER"])
       ELSE /\ req' = [req EXCEPT ![q].pc = "attack_update_hp",
                         ![q].hit = Some(damageFormula(generated_stats(ch[1]).stats, roll))]
            /\ reply' = Null
  /\ UNCHANGED <<dbVars, okActs, attack, questVars, bossVars, genVars>>

\* Mutant: the update without greatest(0, ...).
AttackUpdateHp_NoFloor(q) ==
  /\ req[q].pc = "attack_update_hp"
  /\ live_bosses' = [live_bosses EXCEPT ![req[q].boss_id].hp = @ - req[q].hit[1].damage]
  /\ req' = [req EXCEPT ![q].pc = "attack_insert_damage",
               ![q].updated = Some([hp |-> live_bosses'[req[q].boss_id].hp,
                                    max_hp |-> live_bosses'[req[q].boss_id].max_hp])]
  /\ reply' = Null
  /\ UNCHANGED <<dbVars, okActs, attack, boss_damage, questVars, genVars>>

\* update live_bosses set hp = greatest(0, hp - $1) where id=$2 returning hp, max_hp
AttackUpdateHp(q) ==
  /\ req[q].pc = "attack_update_hp"
  /\ live_bosses' = [live_bosses EXCEPT ![req[q].boss_id].hp = Max(0, @ - req[q].hit[1].damage)]
  /\ req' = [req EXCEPT ![q].pc = "attack_insert_damage",
               ![q].updated = Some([hp |-> live_bosses'[req[q].boss_id].hp,
                                    max_hp |-> live_bosses'[req[q].boss_id].max_hp])]
  /\ reply' = Null
  /\ UNCHANGED <<dbVars, okActs, attack, boss_damage, questVars, genVars>>

BossDamageRow(b, u, damage) == [live_boss_id |-> b, user_id |-> u, damage |-> damage]

\* Mutant: the test is Number(updated.hp) < 0.
isDead_Strict(updated) == updated.hp < 0

\* Number(updated.hp) <= 0
isDead(updated) == updated.hp <= 0

\* The reply of a completed attack.
AttackReply(q) ==
  [damage |-> req[q].hit[1].damage, crit |-> req[q].hit[1].crit,
   boss |-> [hp |-> req[q].updated[1].hp, max_hp |-> req[q].updated[1].max_hp,
             defeated |-> isDead(req[q].updated[1])]]

\* insert into boss_damage (live_boss_id, user_id, damage); with hp left, the reply.
AttackInsertDamage(q) ==
  /\ req[q].pc = "attack_insert_damage"
  /\ boss_damage' = boss_damage
        (+) SetToBag({BossDamageRow(req[q].boss_id, req[q].user, req[q].hit[1].damage)})
  /\ IF isDead(req[q].updated[1])
     THEN Goto(q, "attack_mark_defeated")
     ELSE Send(q, "attack", req[q].user, 0, "none", 200, AttackReply(q))
  /\ UNCHANGED <<dbVars, okActs, attack, live_bosses, questVars, genVars>>

\* update live_bosses set status='defeated' where id=$1; the reply.
AttackMarkDefeated(q) ==
  /\ req[q].pc = "attack_mark_defeated"
  /\ live_bosses' = [live_bosses EXCEPT ![req[q].boss_id].status = "defeated"]
  /\ Send(q, "attack", req[q].user, 0, "none", 200, AttackReply(q))
  /\ UNCHANGED <<dbVars, okActs, attack, boss_damage, questVars, genVars>>

\* --------------------------------------------- calls of the generator and the PRNG
\* Seeds given to mulberry32 and generateDailyCharacter directly: values of the
\* unsigned 32-bit range and, below 0, values outside of it.
SeedArgs == {0, 1, 6, 7, 12345, 1999999999, 2147483647, -1, -2, -12345, -2147483647}

\* generateDailyCharacter on each of these seeds.
GenerateArgs == [seed \in SeedArgs |-> generateDailyCharacter(seed)]

\* generateDailyCharacter(seed) is called: const r = mulberry32(seed), a
\* generator of the call's own.  The function is synchronous: a call begins
\* when the one before it has returned.
CallGenerate(seed) ==
  /\ call = Null
  /\ call' = Some([seed |-> seed, t |-> mulberry32(seed), draws |-> <<>>])
  /\ gen' = Null
  /\ UNCHANGED <<dbVars, req, reply, okActs, attack, questVars, bossVars, prng, generated>>

\* The next r() of the running call, in pick or randInt: the state of r moves
\* on and the value returned is the numerator computed from it.
CallDraw ==
  /\ call # Null
  /\ Len(call[1].draws) < DrawsPerCall
  /\ call' = Some([call[1] EXCEPT !.t = NextT(@),
                                  !.draws = Append(@, Numerator(NextT(call[1].t)))])
  /\ UNCHANGED <<dbVars, req, reply, okActs, attack, questVars, bossVars, prng, gen, generated>>

\* The running call returns the character made from its draws; the generator
\* it built is dropped.
CallReturn ==
  /\ call # Null
  /\ Len(call[1].draws) = DrawsPerCall
  /\ gen' = Some([seed |-> call[1].seed, out |-> CharacterFromDraws(call[1].draws),
                  t |-> call[1].t,
                  repeat |-> \E p \in generated : p[1] = call[1].seed])
  /\ generated' = generated \cup {<<call[1].seed, CharacterFromDraws(call[1].draws)>>}
  /\ call' = Null
  /\ UNCHANGED <<dbVars, req, reply, okActs, attack, questVars, bossVars, prng>>

\* r = mulberry32(seed)
NewPrng(seed) ==
  /\ prng' = Some([seed |-> seed, t |-> mulberry32(seed), n |-> 0, out |-> Null])
  /\ UNCHANGED <<dbVars, req, reply, okActs, attack, questVars, bossVars, call, gen, generated>>

\* k calls r() in a row on a new generator, the values before the last dropped.
\* While t stays below 2^53 every `t += 0x6D2B79F5` is exact, and k of them add
\* k * 0x6D2B79F5.
DrawTimes(k) ==
  /\ prng # Null
  /\ prng[1].n = 0
  /\ PlusIncrements(prng[1].t, k)[1] < 2097152
  /\ prng' = Some([prng[1] EXCEPT !.t = PlusIncrements(prng[1].t, k), !.n = k,
                                  !.out = Some(Numerator(PlusIncrements(prng[1].t, k)))])
  /\ UNCHANGED <<dbVars, req, reply, okActs, attack, questVars, bossVars, call, gen, generated>>

\* r(): the state moves on, the numerator of the value returned is kept in out.
\* No more than cap draws are made from a generator.
Draw(cap) ==
  /\ prng # Null
  /\ prng[1].n < cap
  /\ prng' = Some([prng[1] EXCEPT !.t = NextT(@), !.n = @ + 1,
                                  !.out = Some(Numerator(NextT(prng[1].t)))])
  /\ UNCHANGED <<dbVars, req, reply, okActs, attack, questVars, bossVars, call, gen, generated>>

\* ------------------------------------ GET /quests/today, POST /rewards/claim
\* Table quest_templates as the seed files fill it, in the order of the
\* inserts: the three rows of the first seed, then the rows of the extended
\* seed (on conflict (code) do nothing; its codes are new).  created_at is the
\* time of the transaction that inserted the row: 1 for the first seed, 2 for
\* the extended one.  All rows are active.
QuestTemplateRow(code, cadence, created_at, reward) ==
  [code |-> code, cadence |-> cadence, active |-> TRUE, created_at |-> created_at,
   reward |-> reward]

QuestTemplateRows ==
  << QuestTemplateRow("Q_DAILY_RUN", "daily", 1, [gold |-> 60]),
     QuestTemplateRow("Q_DAILY_BOSS", "daily", 1, [gold |-> 40]),
     QuestTemplateRow("Q_DAILY_EQUIP", "daily", 1, [gold |-> 30]),
     QuestTemplateRow("Q_DAILY_RUN_1", "daily", 2, [gold |-> 70, dust |-> 10, bp_xp |-> 250]),
     QuestTemplateRow("Q_DAILY_BOSS_1", "daily", 2, [gold |-> 50, dust |-> 5, bp_xp |-> 200]),
     QuestTemplateRow("Q_DAILY_EQUIP_1", "daily", 2, [gold |-> 30, shards |-> 1, bp_xp |-> 200]),
     QuestTemplateRow("Q_WEEKLY_RUN_5", "weekly", 2, [gold |-> 250, dust |-> 80, bp_xp |-> 600]),
     QuestTemplateRow("Q_WEEKLY_BOSS_10", "weekly", 2, [gold |-> 200, shards |-> 2, bp_xp |-> 500]),
     QuestTemplateRow("Q_WEEKLY_SALVAGE_10", "weekly", 2,
                      [gold |-> 150, dust |-> 120, bp_xp |-> 400]),
     QuestTemplateRow("Q_WEEKLY_GUILD_3", "weekly", 2, [gold |-> 150, shards |-> 1, bp_xp |-> 400]),
     QuestTemplateRow("Q_WEEKLY_STREAK_5", "weekly", 2, [gold |-> 120, shards |-> 1, bp_xp |-> 300]),
     QuestTemplateRow("Q_WEEKLY_CRAFT_2", "weekly", 2, [gold |-> 180, dust |-> 80, bp_xp |-> 450]) >>

\* The table by its key: the code of a template stands for its id.
quest_templates ==
  [c \in {QuestTemplateRows[i].code : i \in DOMAIN QuestTemplateRows} |->
     QuestTemplateRows[CHOOSE i \in DOMAIN QuestTemplateRows : QuestTemplateRows[i].code = c]]

IsActiveDaily(row) == row.active /\ row.cadence = "daily"

\* The rows of seq in the order of created_at, rows of one time in the order of seq.
RECURSIVE OrderByCreatedAt(_)
OrderByCreatedAt(seq) ==
  IF seq = <<>> THEN <<>>
  ELSE LET first == CHOOSE i \in DOMAIN seq :
                      \A j \in DOMAIN seq :
                        \/ seq[i].created_at < seq[j].created_at
                        \/ seq[i].created_at = seq[j].created_at /\ i <= j
       IN  <<seq[first]>> \o OrderByCreatedAt(SubSeq(seq, 1, first - 1)
                                                \o SubSeq(seq, first + 1, Len(seq)))

\* limit: the first n rows of seq
Limit(seq, n) == SubSeq(seq, 1, Min(n, Len(seq)))

\* select * from quest_templates where active=true and cadence='daily' order by
\* created_at asc limit 3: the codes of the rows returned.
DailyTemplates ==
  LET rows == Limit(OrderByCreatedAt(SelectSeq(QuestTemplateRows, IsActiveDaily)), 3)
  IN  [i \in DOMAIN rows |-> rows[i].code]

\* Number(reward.gold ?? 0), and the same for dust, shards and bp_xp
RewardOf(reward, k) == IF k \in DOMAIN reward THEN reward[k] ELSE 0

\* GET /quests/today: the active daily templates are selected (limit 3).
QuestsSelectTemplates(q, u) ==
  /\ FreeSlot(q)
  /\ req' = [req EXCEPT ![q] = [IdleReq EXCEPT !.op = "quests", !.user = u,
               !.templates = DailyTemplates, !.pc = "quests_select_day"]]
  /\ reply' = Null
  /\ UNCHANGED <<dbVars, okActs, attack, questVars, bossVars, genVars>>

\* select (now() at time zone 'utc')::date as d: the day is kept in dayKey for
\* the inserts and the final select.
QuestsSelectDay(q) ==
  /\ req[q].pc = "quests_select_day"
  /\ req' = [req EXCEPT ![q].day = today,
                        ![q].pc = IF req[q].templates = <<>> THEN "quests_select"
                                  ELSE "quests_insert"]
  /\ reply' = Null
  /\ UNCHANGED <<dbVars, okActs, attack, questVars, bossVars, genVars>>

\* insert into user_quests ... on conflict (user_id, quest_template_id, day_key)
\* do nothing, for the next template of the loop
QuestsInsert(q) ==
  /\ req[q].pc = "quests_insert"
  /\ LET u  == req[q].user
         id == <<u, Head(req[q].templates), req[q].day>>
     IN  /\ user_quests' =
              IF id \in DOMAIN user_quests THEN user_quests
              ELSE [k \in DOMAIN user_quests \cup {id} |->
                      IF k = id THEN [user_id |-> u, quest_template_id |-> id[2],
                                      day_key |-> req[q].day, claimed_at |-> Null]
                      ELSE user_quests[k]]
         /\ req' = [req EXCEPT ![q].templates = Tail(@),
                               ![q].pc = IF Tail(req[q].templates) = <<>>
                                         THEN "quests_select" ELSE "quests_insert"]
         /\ reply' = Null
  /\ UNCHANGED <<dbVars, okActs, attack, user_battle_pass, bossVars, genVars>>

\* select uq.* ... where uq.user_id=$1 and uq.day_key=$2; reply {day_key, quests}
QuestsSelect(q) ==
  /\ req[q].pc = "quests_select"
  /\ Send(q, "quests", req[q].user, 0, "none", 200,
          [day_key |-> req[q].day,
           quests |-> {k \in DOMAIN user_quests :
                         user_quests[k].user_id = req[q].user
                           /\ user_quests[k].day_key = req[q].day}])
  /\ UNCHANGED <<dbVars, okActs, attack, questVars, bossVars, genVars>>

\* The awaited statements that follow `update user_quests set claimed_at`, each
\* with the condition under which the handler runs it.
ClaimStages == <<"claim_insert_wallets", "claim_credit_gold", "claim_credit_dust",
                 "claim_credit_shards", "claim_select_season">>

ClaimStageRuns(stage, reward) ==
  CASE stage = "claim_insert_wallets" ->
         RewardOf(reward, "gold") > 0 \/ RewardOf(reward, "dust") > 0
           \/ RewardOf(reward, "shards") > 0
    [] stage = "claim_credit_gold"    -> RewardOf(reward, "gold") > 0
    [] stage = "claim_credit_dust"    -> RewardOf(reward, "dust") > 0
    [] stage = "claim_credit_shards"  -> RewardOf(reward, "shards") > 0
    [] stage = "claim_select_season"  -> RewardOf(reward, "bp_xp") > 0

\* The stages after stage number i that the handler runs for the reward.
StagesAfter(i, reward) ==
  {j \in DOMAIN ClaimStages : j > i /\ ClaimStageRuns(ClaimStages[j], reward)}

StageNumber(stage) == CHOOSE i \in DOMAIN ClaimStages : ClaimStages[i] = stage

\* return reply.send({ ok: true, reward })
ClaimSendReward(q) ==
  Send(q, "claim", req[q].user, 0, "none", 200, [ok |-> TRUE, reward |-> req[q].uq[1].reward])

\* After stage number i (0: the update of claimed_at) the handler goes on with
\* the next statement its conditions select, or replies.
ClaimGoOn(q, i) ==
  LET after == StagesAfter(i, req[q].uq[1].reward) IN
  IF after = {} THEN ClaimSendReward(q)
  ELSE Goto(q, ClaimStages[CHOOSE j \in after : \A k \in after : j <= k])

\* Mutant: the claimed_at of the row selected is not tested.
ClaimSelect_NoAlready(q, u, id) ==
  /\ FreeSlot(q)
  /\ IF id = Null
     THEN Send(q, "claim", u, 0, "none", 400, [error |-> "MISSING_USER_QUEST_ID"])
     ELSE IF ~(id[1] \in DOMAIN user_quests /\ user_quests[id[1]].user_id = u)
     THEN Send(q, "claim", u, 0, "none", 404, [error |-> "NOT_FOUND"])
     ELSE /\ req' = [req EXCEPT ![q] = [IdleReq EXCEPT !.op = "claim", !.user = u,
                       !.pc = "claim_update",
                       !.uq = Some([id |-> id[1],
                                    reward |-> quest_templates[user_quests[id[1]].quest_template_id].reward])]]
          /\ reply' = Null
  /\ UNCHANGED <<dbVars, okActs, attack, questVars, bossVars, genVars>>

\* POST /rewards/claim with body.user_quest_id = id (Null: missing): 400 without
\* an id; the row is selected with its template's reward, 404 without a row of
\* the user, {ok, already} when claimed_at is set.
ClaimSelect(q, u, id) ==
  /\ FreeSlot(q)
  /\ IF id = Null
     THEN Send(q, "claim", u, 0, "none", 400, [error |-> "MISSING_USER_QUEST_ID"])
     ELSE IF ~(id[1] \in DOMAIN user_quests /\ user_quests[id[1]].user_id = u)
     THEN Send(q, "claim", u, 0, "none", 404, [error |-> "NOT_FOUND"])
     ELSE IF user_quests[id[1]].claimed_at # Null
     THEN Send(q, "claim", u, 0, "none", 200, [ok |-> TRUE, already |-> TRUE])
     ELSE /\ req' = [req EXCEPT ![q] = [IdleReq EXCEPT !.op = "claim", !.user = u,
                       !.pc = "claim_update",
                       !.uq = Some([id |-> id[1],
                                    reward |-> quest_templates[user_quests[id[1]].quest_template_id].reward])]]
          /\ reply' = Null
  /\ UNCHANGED <<dbVars, okActs, attack, questVars, bossVars, genVars>>

\* update user_quests set claimed_at=now() where id=$1
ClaimUpdate(q) ==
  /\ req[q].pc = "claim_update"
  /\ user_quests' = [user_quests EXCEPT ![req[q].uq[1].id].claimed_at = Some(today)]
  /\ ClaimGoOn(q, 0)
  /\ UNCHANGED <<dbVars, okActs, attack, user_battle_pass, bossVars, genVars>>

\* insert into wallets ... ($1,'gold',0), ($1,'dust',0), ($1,'shards',0)
\* on conflict (user_id, currency_code) do nothing
ClaimInsertWallets(q) ==
  /\ req[q].pc = "claim_insert_wallets"
  /\ wallets' = InsertWallet(InsertWallet(InsertWallet(wallets, req[q].user, "gold", 0),
                                          req[q].user, "dust", 0), req[q].user, "shards", 0)
  /\ ClaimGoOn(q, StageNumber("claim_insert_wallets"))
  /\ UNCHANGED <<today, inventories, characters, lastCharId, runs, lastRunId, encounters, transactions,
                 okActs, attack, questVars, bossVars, genVars>>

CreditStage == [gold |-> "claim_credit_gold", dust |-> "claim_credit_dust",
                shards |-> "claim_credit_shards"]

\* update wallets set balance = balance + $2 where user_id=$1 and
\* currency_code=c, for c one of gold, dust, shards
ClaimCredit(q, c) ==
  /\ req[q].pc = CreditStage[c]
  /\ wallets' = CreditWallet(wallets, req[q].user, c, RewardOf(req[q].uq[1].reward, c))
  /\ ClaimGoOn(q, StageNumber(CreditStage[c]))
  /\ UNCHANGED <<today, inventories, characters, lastCharId, runs, lastRunId, encounters, transactions,
                 okActs, attack, questVars, bossVars, genVars>>

\* select * from seasons where is_active=true and starts_at <= now() and
\* ends_at > now(): the season, or no row once it has ended.
ClaimSelectSeason(q, season) ==
  /\ req[q].pc = "claim_select_season"
  /\ IF season THEN Goto(q, "claim_insert_battle_pass") ELSE ClaimSendReward(q)
  /\ UNCHANGED <<dbVars, okActs, attack, questVars, bossVars, genVars>>

\* insert into user_battle_pass ... values ($1, $2, 0, false) on conflict
\* (user_id, season_id) do update set xp = user_battle_pass.xp
ClaimInsertBattlePass(q) ==
  /\ req[q].pc = "claim_insert_battle_pass"
  /\ LET u == req[q].user IN
       user_battle_pass' =
         IF u \in DOMAIN user_battle_pass THEN user_battle_pass
         ELSE [k \in DOMAIN user_battle_pass \cup {u} |->
                 IF k = u THEN 0 ELSE user_battle_pass[k]]
  /\ Goto(q, "claim_update_xp")
  /\ UNCHANGED <<dbVars, okActs, attack, user_quests, bossVars, genVars>>

\* update user_battle_pass set xp = xp + $2 where user_id=$1 and season_id=$3;
\* the handler replies {ok, reward}.
ClaimUpdateXp(q) ==
  /\ req[q].pc = "claim_update_xp"
  /\ LET u == req[q].user IN
       user_battle_pass' =
         IF u \in DOMAIN user_battle_pass
         THEN [user_battle_pass EXCEPT ![u] = @ + RewardOf(req[q].uq[1].reward, "bp_xp")]
         ELSE user_battle_pass
  /\ ClaimSendReward(q)
  /\ UNCHANGED <<dbVars, okActs, attack, user_quests, bossVars, genVars>>

\* ------------------------------------------------------- the specifications
Init ==
  /\ today = 1
  /\ inventories = {}
  /\ characters = {}
  /\ lastCharId = [u \in Users |-> 0]
  /\ runs = <<>>
  /\ lastRunId = 0
  /\ encounters = EmptyBag
  /\ transactions = EmptyBag
  /\ wallets = <<>>
  /\ req = [q \in Req |-> IdleReq]
  /\ reply = Null
  /\ okActs = [r \in RunIds |-> 0]
  /\ attack = Null
  /\ live_bosses = [b \in BossIds |-> [hp |-> MaxBossHp, max_hp |-> MaxBossHp, status |-> "active"]]
  /\ boss_damage = EmptyBag
  /\ prng = Null
  /\ call = Null
  /\ gen = Null
  /\ generated = {}
  /\ user_quests = <<>>
  /\ user_battle_pass = <<>>

\* The bounds on the requests that are sent: a /runs/start only while fewer than
\* cap runs exist, a /runs/act that passes the handler's guards only while fewer
\* than MaxActs of them did for that run.
ActsBegun(rid) ==
  okActs[rid] + Cardinality({q \in Req : req[q].op = "act" /\ req[q].run_id = rid})

MayStart(cap) == RunsBegun < cap
MayAct(u, rid) == ActGuard(SelectRun(rid, u)) = "ok" => ActsBegun(rid) < MaxActs

\* Requests interleave at every awaited statement, within one UTC day; at most
\* MaxConcRuns runs.  GET /me is sent by the users MeCallers (their inventory
\* and starter wallets), POST /characters/generate by all.
MeCallers == {"u1", NoUser}

Next ==
  \/ \E q \in Req, u \in Users : MayStart(MaxConcRuns) /\ StartSelectCharacter(q, u)
  \/ \E q \in Req : StartInsertRun(q)
  \/ \E q \in Req : StartInsertEncounter(q)
  \/ \E q \in Req, u \in Users, rid \in RunIds, a \in ActionEnum :
       MayAct(u, rid) /\ ActSelect(q, u, rid, a)
  \/ \E q \in Req : ActUpdateState(q)
  \/ \E q \in Req : ActSetFinished(q)
  \/ \E q \in Req : ActInsertTransactions(q)
  \/ \E q \in Req : ActEnsureWallets(q)
  \/ \E q \in Req : ActCreditGold(q)
  \/ \E q \in Req : ActCreditDust(q)
  \/ \E q \in Req : ActInsertEncounter(q)
  \/ \E q \in Req, u \in Users, rid \in RunIds : FinishSelect(q, u, rid)
  \/ \E q \in Req, u \in MeCallers : MeSelectUser(q, u)
  \/ \E q \in Req : MeSelectInventory(q)
  \/ \E q \in Req : EnsureInsertInventory(q)
  \/ \E q \in Req : EnsureInsertWallets(q)
  \/ \E q \in Req : EnsureSelectItem(q)
  \/ \E q \in Req : EnsureInsertInstance(q)
  \/ \E q \in Req : EnsureInsertInventoryItem(q)
  \/ \E q \in Req : MeSelectCharacter(q)
  \/ \E q \in Req, u \in Users : GenerateArrives(q, u)
  \/ \E q \in Req : GenerateSelect(q)
  \/ \E q \in Req, seed \in RunSeeds : CharInsert(q, seed)
  \/ \E q \in Req : CharInsertSlot(q)

Spec == Init /\ [][Next]_vars

\* Clients that wait for the reply before sending the next request: a request
\* arrives only when no handler is in flight.  The date changes at any time,
\* between two statements of a handler too.
AllQuiet == \A p \in Req : ~InFlight(p)

NextSeq ==
  \/ \E q \in Req, u \in Users : AllQuiet /\ MayStart(MaxRuns) /\ StartSelectCharacter(q, u)
  \/ \E q \in Req : StartInsertRun(q)
  \/ \E q \in Req : StartInsertEncounter(q)
  \/ \E q \in Req, u \in Users, rid \in RunIds, a \in ActionEnum :
       AllQuiet /\ MayAct(u, rid) /\ ActSelect(q, u, rid, a)
  \/ \E q \in Req : ActUpdateState(q)
  \/ \E q \in Req : ActSetFinished(q)
  \/ \E q \in Req : ActInsertTransactions(q)
  \/ \E q \in Req : ActEnsureWallets(q)
  \/ \E q \in Req : ActCreditGold(q)
  \/ \E q \in Req : ActCreditDust(q)
  \/ \E q \in Req : ActInsertEncounter(q)
  \/ \E q \in Req, u \in Users, rid \in RunIds : AllQuiet /\ FinishSelect(q, u, rid)
  \/ \E q \in Req, u \in Users \cup {NoUser} : AllQuiet /\ MeSelectUser(q, u)
  \/ \E q \in Req : MeSelectInventory(q)
  \/ \E q \in Req : EnsureInsertInventory(q)
  \/ \E q \in Req : EnsureInsertWallets(q)
  \/ \E q \in Req : EnsureSelectItem(q)
  \/ \E q \in Req : EnsureInsertInstance(q)
  \/ \E q \in Req : EnsureInsertInventoryItem(q)
  \/ \E q \in Req : MeSelectCharacter(q)
  \/ \E q \in Req, u \in Users : AllQuiet /\ GenerateArrives(q, u)
  \/ \E q \in Req : GenerateSelect(q)
  \/ \E q \in Req, seed \in RunSeeds : CharInsert(q, seed)
  \/ \E q \in Req : CharInsertSlot(q)
  \/ NextDay

SpecSeq == Init /\ [][NextSeq]_vars

\* The damage formula on every input of the bounded sets.
NextDamage ==
  attack = Null /\ \E atk \in AtkValues, crit \in CritValues, luck \in LuckValues, roll \in Rolls :
    Attack([atk |-> atk, crit |-> crit, luck |-> luck], roll)

SpecDamage == Init /\ [][NextDamage]_vars

\* The boss attack with the requests interleaving at every awaited statement;
\* the characters come from /characters/generate.  A request names the live
\* boss or an id without a row.
NextBoss ==
  \/ \E q \in Req, u \in Users : GenerateArrives(q, u)
  \/ \E q \in Req : GenerateSelect(q)
  \/ \E q \in Req, seed \in Seeds : CharInsert(q, seed)
  \/ \E q \in Req : CharInsertSlot(q)
  \/ \E q \in Req, u \in Users, b \in BossIds \cup {"b0"} : AttackSelectBoss(q, u, b)
  \/ \E q \in Req, roll \in Rolls : AttackSelectCharacter(q, roll)
  \/ \E q \in Req : AttackUpdateHp(q)
  \/ \E q \in Req : AttackInsertDamage(q)
  \/ \E q \in Req : AttackMarkDefeated(q)

SpecBoss == Init /\ [][NextBoss]_vars

\* The boss attack when attacks keep arriving: every awaited statement of a
\* handler in flight is executed in the end (the event loop resumes every
\* handler whose query has returned), and attack requests on the live boss by
\* users with a character of today are sent again and again.
AttackArrives ==
  \E q \in Req, u \in Users, b \in BossIds :
    getTodayCharacter(u, today) # Null /\ AttackSelectBoss(q, u, b)

SpecBossFair ==
  /\ SpecBoss
  /\ \A q \in Req :
       /\ WF_vars(GenerateSelect(q))
       /\ WF_vars(\E seed \in Seeds : CharInsert(q, seed))
       /\ WF_vars(CharInsertSlot(q))
       /\ WF_vars(\E roll \in Rolls : AttackSelectCharacter(q, roll))
       /\ WF_vars(AttackUpdateHp(q))
       /\ WF_vars(AttackInsertDamage(q))
       /\ WF_vars(AttackMarkDefeated(q))
  /\ SF_vars(AttackArrives)

\* The boss attack with one request at a time.
NextBossSeq ==
  \/ \E q \in Req, u \in Users : AllQuiet /\ GenerateArrives(q, u)
  \/ \E q \in Req : GenerateSelect(q)
  \/ \E q \in Req, seed \in Seeds : CharInsert(q, seed)
  \/ \E q \in Req : CharInsertSlot(q)
  \/ \E q \in Req, u \in Users, b \in BossIds \cup {"b0"} : AllQuiet /\ AttackSelectBoss(q, u, b)
  \/ \E q \in Req, roll \in Rolls : AttackSelectCharacter(q, roll)
  \/ \E q \in Req : AttackUpdateHp(q)
  \/ \E q \in Req : AttackInsertDamage(q)
  \/ \E q \in Req : AttackMarkDefeated(q)

SpecBossSeq == Init /\ [][NextBossSeq]_vars

\* Calls of generateDailyCharacter with any seeds in any order, one after the
\* other, each with its draws.
NextGen ==
  \/ \E seed \in SeedArgs : CallGenerate(seed)
  \/ CallDraw
  \/ CallReturn

SpecGen == Init /\ [][NextGen]_vars

\* A generator is made from a seed and drawn from; a new one can be made at any time.
NextPrng ==
  \/ \E seed \in SeedArgs : NewPrng(seed)
  \/ Draw(MaxDraws)

SpecPrng == Init /\ [][NextPrng]_vars

\* A generator that is drawn from for a long time: LongDraws draws, then up to
\* MaxDraws more, one by one.
NextPrngLong ==
  \/ \E seed \in SeedArgs : NewPrng(seed)
  \/ DrawTimes(LongDraws)
  \/ prng # Null /\ prng[1].n >= LongDraws /\ Draw(LongDraws + MaxDraws)

SpecPrngLong == Init /\ [][NextPrngLong]_vars

\* GET /me, POST /characters/generate and GET /equipment requests interleaving
\* at every awaited statement, within one UTC day.
NextChar ==
  \/ \E q \in Req, u \in Users \cup {NoUser} : MeSelectUser(q, u)
  \/ \E q \in Req : MeSelectInventory(q)
  \/ \E q \in Req : EnsureInsertInventory(q)
  \/ \E q \in Req : EnsureInsertWallets(q)
  \/ \E q \in Req : EnsureSelectItem(q)
  \/ \E q \in Req : EnsureInsertInstance(q)
  \/ \E q \in Req : EnsureInsertInventoryItem(q)
  \/ \E q \in Req : MeSelectCharacter(q)
  \/ \E q \in Req, u \in Users : GenerateArrives(q, u)
  \/ \E q \in Req : GenerateSelect(q)
  \/ \E q \in Req, u \in Users : EquipmentArrives(q, u)
  \/ \E q \in Req : EquipmentSelect(q)
  \/ \E q \in Req : EquipmentSelectSlots(q)
  \/ \E q \in Req, seed \in Seeds : CharInsert(q, seed)
  \/ \E q \in Req : CharInsertSlot(q)

SpecChar == Init /\ [][NextChar]_vars

\* The same with GET /inventory and POST /equipment, the other routes that
\* call ensureInventory and createTodayCharacter.
NextGame ==
  \/ NextChar
  \/ \E q \in Req, u \in Users : InventorySelectInventory(q, u)
  \/ \E q \in Req : InventorySelectItems(q)
  \/ \E q \in Req, u \in Users, item \in ItemArgs : EquipmentPostArrives(q, u, item)
  \/ \E q \in Req : EquipmentPostSelect(q)
  \/ \E q \in Req, owns \in BOOLEAN : EquipmentSelectOwner(q, owns)
  \/ \E q \in Req : EquipmentUpdateSlot(q)

SpecGame == Init /\ [][NextGame]_vars

\* The character routes, forced rerolls included, with the requests
\* interleaving at every awaited statement, within one UTC day.
Rerollers == {"u1"}

NextReroll ==
  \/ \E q \in Req, u \in Users \cup {NoUser} : MeSelectUser(q, u)
  \/ \E q \in Req : MeSelectInventory(q)
  \/ \E q \in Req : EnsureInsertInventory(q)
  \/ \E q \in Req : EnsureInsertWallets(q)
  \/ \E q \in Req : EnsureSelectItem(q)
  \/ \E q \in Req : EnsureInsertInstance(q)
  \/ \E q \in Req : EnsureInsertInventoryItem(q)
  \/ \E q \in Req : MeSelectCharacter(q)
  \/ \E q \in Req, u \in Users : GenerateArrives(q, u)
  \/ \E q \in Req : GenerateSelect(q)
  \/ \E q \in Req, u \in Rerollers : ForceArrives(q, u)
  \/ \E q \in Req : ForceSelect(q)
  \/ \E q \in Req : ForceSelectWallet(q)
  \/ \E q \in Req : ForceUpdateWallet(q)
  \/ \E q \in Req : ForceDelete(q)
  \/ \E q \in Req, seed \in Seeds : CharInsert(q, seed)
  \/ \E q \in Req : CharInsertSlot(q)

SpecReroll == Init /\ [][NextReroll]_vars

\* Forced rerolls of the users Rerollers while their runs are started and
\* advanced, the requests interleaving at every awaited statement: the delete
\* of a character takes its runs and their encounters with it.
NextRunReroll ==
  \/ \E q \in Req, u \in Rerollers : MeSelectUser(q, u)
  \/ \E q \in Req : MeSelectInventory(q)
  \/ \E q \in Req : EnsureInsertInventory(q)
  \/ \E q \in Req : EnsureInsertWallets(q)
  \/ \E q \in Req : EnsureSelectItem(q)
  \/ \E q \in Req : EnsureInsertInstance(q)
  \/ \E q \in Req : EnsureInsertInventoryItem(q)
  \/ \E q \in Req : MeSelectCharacter(q)
  \/ \E q \in Req, u \in Rerollers : ForceArrives(q, u)
  \/ \E q \in Req : ForceSelect(q)
  \/ \E q \in Req : ForceSelectWallet(q)
  \/ \E q \in Req : ForceUpdateWallet(q)
  \/ \E q \in Req : ForceDelete(q)
  \/ \E q \in Req, seed \in RunSeeds : CharInsert(q, seed)
  \/ \E q \in Req : CharInsertSlot(q)
  \/ \E q \in Req, u \in Rerollers : MayStart(MaxConcRuns) /\ StartSelectCharacter(q, u)
  \/ \E q \in Req : StartInsertRun(q)
  \/ \E q \in Req : StartInsertEncounter(q)
  \/ \E q \in Req, u \in Rerollers, rid \in RunIds :
       MayAct(u, rid) /\ ActSelect(q, u, rid, "ATTACK")
  \/ \E q \in Req : ActUpdateState(q)
  \/ \E q \in Req : ActSetFinished(q)
  \/ \E q \in Req : ActInsertTransactions(q)
  \/ \E q \in Req : ActEnsureWallets(q)
  \/ \E q \in Req : ActCreditGold(q)
  \/ \E q \in Req : ActCreditDust(q)
  \/ \E q \in Req : ActInsertEncounter(q)
  \/ \E q \in Req, u \in Rerollers, rid \in RunIds : FinishSelect(q, u, rid)

SpecRunReroll == Init /\ [][NextRunReroll]_vars

\* The foreign keys of the schema: every run's character exists and every
\* encounter's run exists.
ForeignKeys ==
  /\ \A r \in DOMAIN runs : \E c \in characters : c.id = runs[r].character_id
  /\ \A e \in BagToSet(encounters) : e.run_id \in DOMAIN runs

\* The character routes of all users and POST /runs/start, with one request at
\* a time.
NextRerollSeq ==
  \/ \E q \in Req, u \in Users \cup {NoUser} : AllQuiet /\ MeSelectUser(q, u)
  \/ \E q \in Req : MeSelectInventory(q)
  \/ \E q \in Req : EnsureInsertInventory(q)
  \/ \E q \in Req : EnsureInsertWallets(q)
  \/ \E q \in Req : EnsureSelectItem(q)
  \/ \E q \in Req : EnsureInsertInstance(q)
  \/ \E q \in Req : EnsureInsertInventoryItem(q)
  \/ \E q \in Req : MeSelectCharacter(q)
  \/ \E q \in Req, u \in Users : AllQuiet /\ GenerateArrives(q, u)
  \/ \E q \in Req : GenerateSelect(q)
  \/ \E q \in Req, u \in Users : AllQuiet /\ ForceArrives(q, u)
  \/ \E q \in Req : ForceSelect(q)
  \/ \E q \in Req : ForceSelectWallet(q)
  \/ \E q \in Req : ForceUpdateWallet(q)
  \/ \E q \in Req : ForceDelete(q)
  \/ \E q \in Req, seed \in Seeds : CharInsert(q, seed)
  \/ \E q \in Req : CharInsertSlot(q)
  \/ \E q \in Req, u \in Users : AllQuiet /\ MayStart(MaxRuns) /\ StartSelectCharacter(q, u)
  \/ \E q \in Req : StartInsertRun(q)
  \/ \E q \in Req : StartInsertEncounter(q)

SpecRerollSeq == Init /\ [][NextRerollSeq]_vars

\* GET /quests/today and POST /rewards/claim of the users Claimants, the
\* handlers interleaving at their awaited statements while the date changes.
\* body.user_quest_id is missing, or the id of a row that the daily quests of
\* some user may have.  /quests/today assigns the first three daily templates,
\* whose rewards are gold alone: the handler of /rewards/claim runs the
\* statements for gold and skips those for dust, shards and bp_xp.
Claimants == {"u1"}
QuestIdArgs ==
  {Null} \cup {Some(<<u, DailyTemplates[i], d>>) :
                 u \in Users, i \in DOMAIN DailyTemplates, d \in 1..MaxDay}

NextClaim ==
  \/ \E q \in Req, u \in Claimants : QuestsSelectTemplates(q, u)
  \/ \E q \in Req : QuestsSelectDay(q)
  \/ \E q \in Req : QuestsInsert(q)
  \/ \E q \in Req : QuestsSelect(q)
  \/ \E q \in Req, u \in Claimants, id \in QuestIdArgs : ClaimSelect(q, u, id)
  \/ \E q \in Req : ClaimUpdate(q)
  \/ \E q \in Req : ClaimInsertWallets(q)
  \/ \E q \in Req, c \in DOMAIN CreditStage : ClaimCredit(q, c)
  \/ NextDay

SpecClaim == Init /\ [][NextClaim]_vars

\* The same handlers with the statements of /rewards/claim for a reward with
\* bp_xp; no request reaches them (ClaimStagesSkipped).
NextClaimAll ==
  \/ NextClaim
  \/ \E q \in Req, season \in BOOLEAN : ClaimSelectSeason(q, season)
  \/ \E q \in Req : ClaimInsertBattlePass(q)
  \/ \E q \in Req : ClaimUpdateXp(q)

SpecClaimAll == Init /\ [][NextClaimAll]_vars

\* On the seeded quest_templates no handler of /rewards/claim reaches the
\* statements for dust, shards or bp_xp.
ClaimStagesSkipped ==
  \A q \in Req :
    req[q].pc \notin {"claim_credit_dust", "claim_credit_shards", "claim_select_season",
                      "claim_insert_battle_pass", "claim_update_xp"}

\* The handlers of the quests of all users, one request at a time.
NextClaimSeq ==
  \/ \E q \in Req, u \in Users : AllQuiet /\ QuestsSelectTemplates(q, u)
  \/ \E q \in Req : QuestsSelectDay(q)
  \/ \E q \in Req : QuestsInsert(q)
  \/ \E q \in Req : QuestsSelect(q)
  \/ \E q \in Req, u \in Claimants, id \in QuestIdArgs : AllQuiet /\ ClaimSelect(q, u, id)
  \/ \E q \in Req : ClaimUpdate(q)
  \/ \E q \in Req : ClaimInsertWallets(q)
  \/ \E q \in Req, c \in DOMAIN CreditStage : ClaimCredit(q, c)
  \/ NextDay

SpecClaimSeq == Init /\ [][NextClaimSeq]_vars

\* ================================================================ claims
IsReply(op, code) == reply # Null /\ reply[1].op = op /\ reply[1].code = code

Owned(rid, u) == rid \in DOMAIN runs /\ runs[rid].user_id = u

\* ---------------------------------------------------------------- C1
\* C1: with requests handled one at a time, a run is finished by exactly 5
\* successful act calls: once every call has returned, a run with fewer than 5
\* successful acts is active and one with 5 is finished; the k-th successful
\* reply says "active" for k < 5 and "finished" for k = 5; there is never a 6th
\* success, the owner's act is refused only after the 5th, and then with an error.
C1_RunTermination ==
  /\ \A r \in DOMAIN runs :
       /\ okActs[r] <= COMPLETION_THRESHOLD
       /\ AllQuiet => (runs[r].status = "finished" <=> okActs[r] = COMPLETION_THRESHOLD)
       /\ AllQuiet => (runs[r].status = "active" <=> okActs[r] < COMPLETION_THRESHOLD)
  /\ \A r \in RunIds :
       (reply # Null /\ reply[1].op = "act" /\ reply[1].run_id = r /\ Owned(r, reply[1].user)) =>
          \/ /\ reply[1].code = 200
             /\ reply[1].body.status =
                  (IF okActs[r] = COMPLETION_THRESHOLD THEN "finished" ELSE "active")
          \/ /\ reply[1].code = 400
             /\ reply[1].body = [error |-> "RUN_NOT_ACTIVE"]
             /\ okActs[r] = COMPLETION_THRESHOLD

\* The 6th act call on a run, after 5 successful ones, has just been refused.
C1_Witness ==
  /\ IsReply("act", 400)
  /\ Owned(reply[1].run_id, reply[1].user)
  /\ okActs[reply[1].run_id] = COMPLETION_THRESHOLD

\* ---------------------------------------------------------------- C2
\* The step in which a /runs/act request of user u for run rid arrives: it is
\* answered at once, or a handler with these parameters is now in flight.
ActArrives(u, rid) ==
  \/ /\ reply' # Null /\ reply'[1].op = "act"
     /\ reply'[1].user = u /\ reply'[1].run_id = rid
     /\ req' = req
  \/ \E q \in Req : /\ req[q].pc = "idle" /\ req'[q].pc # "idle"
                    /\ req'[q].op = "act" /\ req'[q].user = u /\ req'[q].run_id = rid

\* C2: an act call on a run of the caller that is not active is answered with the
\* error 400 RUN_NOT_ACTIVE, no handler is left in flight for it, and no table
\* (runs, encounters, transactions, wallets, characters) changes.
C2_NotActiveRejected ==
  [][\A u \in Users, rid \in RunIds :
       (ActArrives(u, rid) /\ Owned(rid, u) /\ runs[rid].status # "active") =>
          /\ reply' # Null
          /\ reply'[1].code = 400
          /\ reply'[1].body = [error |-> "RUN_NOT_ACTIVE"]
          /\ req' = req
          /\ okActs' = okActs
          /\ UNCHANGED dbVars]_vars

\* An act call on a finished run has just been refused, the rewards of the run
\* being in the ledger once.
C2_Witness ==
  /\ IsReply("act", 400)
  /\ Owned(reply[1].run_id, reply[1].user)
  /\ runs[reply[1].run_id].status = "finished"
  /\ CopiesIn(TransactionRow(reply[1].user, "gold", rewardGold, reply[1].run_id), transactions) = 1

\* ---------------------------------------------------------------- C4
\* C4: with requests handled one at a time, a finished run never changes again:
\* its row (status, state.room, outcome) stays as it is whatever is called next.
C4_FinishedIsTerminal ==
  [][\A r \in DOMAIN runs :
       runs[r].status = "finished" => (r \in DOMAIN runs' /\ runs'[r] = runs[r])]_vars

\* Another run has just been started while run 1 is finished.
C4_Witness ==
  /\ Cardinality(DOMAIN runs) = 2
  /\ runs[1].status = "finished"
  /\ runs[1].state.room = COMPLETION_THRESHOLD
  /\ IsReply("start", 200)

\* ---------------------------------------------------------------- C3
RunFinishRows(r, c) ==
  {t \in BagToSet(transactions) : t.run_id = r /\ t.currency_code = c /\ t.reason = "run_finish"}

RunFinishCount(r, c) ==
  LET rows == RunFinishRows(r, c)
      Sum[S \in SUBSET rows] ==
        IF S = {} THEN 0
        ELSE LET t == CHOOSE x \in S : TRUE IN CopiesIn(t, transactions) + Sum[S \ {t}]
  IN Sum[rows]

\* C3: under any interleaving of act calls, a run is finalized at most once: the
\* ledger holds at most one gold and at most one dust 'run_finish' entry per run.
C3_FinalizedAtMostOnce ==
  \A r \in DOMAIN runs : RunFinishCount(r, "gold") <= 1 /\ RunFinishCount(r, "dust") <= 1

\* ---------------------------------------------------------------- C5
FinishedRunsOf(u) == {r \in DOMAIN runs : runs[r].user_id = u /\ runs[r].status = "finished"}

VictoryOutcome(rooms) ==
  [result |-> "victory", rooms |-> rooms,
   rewards |-> << [currency |-> "gold", amount |-> 40], [currency |-> "dust", amount |-> 12] >>]

HasWallet(u, c) == <<u, c>> \in DOMAIN wallets

\* A step of the finalizing part of an act handler of user u, by program counter.
FinalizeStep(q, from, to) == req[q].pc = from /\ req'[q].pc = to

\* C5, the reply: with requests handled one at a time, the act call that brings
\* the room counter to 5 replies {status finished, outcome {victory, rooms 5, gold
\* 40, dust 12}}, the run is then finished with that outcome and room 5, the
\* ledger holds exactly one 40 gold and one 12 dust entry for the run and nothing
\* else for it, the dust wallet holds 12 per finished run of the user, and the gold
\* wallet 40 per finished run on top of what it started from (0 when the act
\* call created it, the 250 starter gold otherwise).
C5_Reply ==
  (IsReply("act", 200) /\ reply[1].body.status = "finished") =>
    LET r == reply[1].run_id
        u == reply[1].user
        n == Cardinality(FinishedRunsOf(u))
    IN /\ Owned(r, u)
       /\ runs[r].status = "finished"
       /\ runs[r].state.room = COMPLETION_THRESHOLD
       /\ reply[1].body.outcome = VictoryOutcome(runs[r].state.room)
       /\ runs[r].outcome = Some(reply[1].body.outcome)
       /\ reply[1].body.run_id = r
       /\ {t \in BagToSet(transactions) : t.run_id = r} =
            {TransactionRow(u, "gold", 40, r), TransactionRow(u, "dust", 12, r)}
       /\ RunFinishCount(r, "gold") = 1
       /\ RunFinishCount(r, "dust") = 1
       /\ HasWallet(u, "gold") /\ HasWallet(u, "dust")
       /\ wallets[<<u, "dust">>] = 12 * n
       /\ wallets[<<u, "gold">>] \in {40 * n, StarterGold + 40 * n}
       /\ u \notin inventories => wallets[<<u, "gold">>] = 40 * n

\* C5, the wallet steps of that call: the wallets it finds are left as they are and
\* the missing ones are created at 0; then gold rises by exactly 40 and dust by
\* exactly 12, and no other wallet changes.
C5_Steps ==
  \A q \in Req :
    LET u == req[q].user IN
    /\ FinalizeStep(q, "act_ensure_wallets", "act_credit_gold") =>
         /\ DOMAIN wallets' = DOMAIN wallets \cup {<<u, "gold">>, <<u, "dust">>}
         /\ \A k \in DOMAIN wallets' : wallets'[k] = IF k \in DOMAIN wallets THEN wallets[k] ELSE 0
    /\ FinalizeStep(q, "act_credit_gold", "act_credit_dust") =>
         /\ DOMAIN wallets' = DOMAIN wallets
         /\ \A k \in DOMAIN wallets :
              wallets'[k] = IF k = <<u, "gold">> THEN wallets[k] + 40 ELSE wallets[k]
    /\ FinalizeStep(q, "act_credit_dust", "idle") =>
         /\ DOMAIN wallets' = DOMAIN wallets
         /\ \A k \in DOMAIN wallets :
              wallets'[k] = IF k = <<u, "dust">> THEN wallets[k] + 12 ELSE wallets[k]

C5_FinishRewards == [](C5_Reply) /\ [][C5_Steps]_vars

\* The finishing reply of a user without starter wallets: both wallets were created
\* by the call, and hold 40 and 12.
C5_Witness ==
  /\ IsReply("act", 200)
  /\ reply[1].body.status = "finished"
  /\ reply[1].user \notin inventories
  /\ wallets[<<reply[1].user, "gold">>] = 40
  /\ wallets[<<reply[1].user, "dust">>] = 12

\* ---------------------------------------------------------------- C6
EncountersOf(r) == {e \in BagToSet(encounters) : e.run_id = r}

TransactionsOf(r) == {t \in BagToSet(transactions) : t.run_id = r}

\* The encounters of a run after k successful acts: index 0 and one per act that
\* did not finish the run.
ExpectedEncounters(r, k) ==
  {EncounterRow(r, 0, "fight")}
    \cup {EncounterRow(r, i, "event") : i \in 1..Min(k, COMPLETION_THRESHOLD - 1)}

\* C6: with requests handled one at a time, over all choices of ATTACK, DEFEND and
\* FLEE, the run after k successful acts is one and the same: room counter k (each
\* act adds exactly 1), status, outcome, encounter log and ledger entries are
\* functions of k alone, and so is the body of the k-th reply.
C6_ActionIndependent ==
  /\ AllQuiet =>
       \A r \in DOMAIN runs :
         LET k == okActs[r] IN
         /\ runs[r].state = [room |-> k, hp_loss |-> 0]
         /\ runs[r].status = (IF k = 5 THEN "finished" ELSE "active")
         /\ runs[r].outcome = (IF k = 5 THEN Some(VictoryOutcome(5)) ELSE Null)
         /\ EncountersOf(r) = ExpectedEncounters(r, k)
         /\ \A e \in EncountersOf(r) : CopiesIn(e, encounters) = 1
         /\ TransactionsOf(r) =
              (IF k = 5 THEN {TransactionRow(runs[r].user_id, "gold", 40, r),
                              TransactionRow(runs[r].user_id, "dust", 12, r)}
               ELSE {})
  /\ IsReply("act", 200) =>
       LET r == reply[1].run_id
           k == okActs[r]
       IN reply[1].body =
            (IF k = 5 THEN [run_id |-> r, status |-> "finished", outcome |-> VictoryOutcome(5)]
             ELSE [run_id |-> r, status |-> "active", state |-> [room |-> k, hp_loss |-> 0]])

\* The third successful act of a run was a FLEE, and the room counter is 3.
C6_Witness ==
  /\ IsReply("act", 200)
  /\ reply[1].action = "FLEE"
  /\ okActs[reply[1].run_id] = 3
  /\ runs[reply[1].run_id].state.room = 3

\* ---------------------------------------------------------------- C7
\* C7, the reply: with requests handled one at a time, an act call whose new room
\* counter is below 5 replies {status active, state}, the state being the run's
\* new state; the run is active, its log holds exactly one encounter with the new
\* room counter as index and none beyond it, and the ledger holds nothing for it.
C7_Reply ==
  (IsReply("act", 200) /\ reply[1].body.status = "active") =>
    LET r    == reply[1].run_id
        room == runs[r].state.room
    IN /\ runs[r].status = "active"
       /\ runs[r].outcome = Null
       /\ reply[1].body.state = runs[r].state
       /\ room \in 1..(COMPLETION_THRESHOLD - 1)
       /\ CopiesIn(EncounterRow(r, room, "event"), encounters) = 1
       /\ \A e \in EncountersOf(r) : e.idx <= room /\ (e.idx = room => e.kind = "event")
       /\ TransactionsOf(r) = {}

\* C7, the steps of that call: none writes the ledger or a wallet, and the log
\* grows by exactly one row, in the step that replies.
C7_Steps ==
  \A q \in Req :
    (req[q].op = "act" /\ req[q].run[1].state.room + 1 < COMPLETION_THRESHOLD) =>
      /\ transactions' = transactions
      /\ wallets' = wallets
      /\ IF req'[q].pc = "idle"
         THEN /\ BagCardinality(encounters') = BagCardinality(encounters) + 1
              /\ \A e \in BagToSet(encounters) : CopiesIn(e, encounters') >= CopiesIn(e, encounters)
         ELSE encounters' = encounters

C7_ContinueRun == [](C7_Reply) /\ [][C7_Steps]_vars

\* The fourth act of a run has just been answered: room 4, still active.
C7_Witness ==
  /\ IsReply("act", 200)
  /\ reply[1].body.status = "active"
  /\ runs[reply[1].run_id].state.room = COMPLETION_THRESHOLD - 1

\* ---------------------------------------------------------------- C8
HasCharacterToday(u) == \E c \in characters : c.user_id = u /\ c.day_key = today

\* The step in which a /runs/start request of user u arrives.
StartArrives(u) ==
  \/ /\ reply' # Null /\ reply'[1].op = "start" /\ reply'[1].user = u /\ req' = req
  \/ \E q \in Req : /\ req[q].pc = "idle" /\ req'[q].pc # "idle"
                    /\ req'[q].op = "start" /\ req'[q].user = u

\* C8 as stated, the reply: with requests handled one at a time, a successful
\* start replies the new run: active, room 0, no outcome, owned by the caller
\* and bound to the caller's character of the day of the reply; the run's log
\* holds exactly one encounter, of index 0. A start is refused only for a
\* caller without a character of today.
C8_Reply ==
  /\ IsReply("start", 200) =>
       LET r == reply[1].run_id
           u == reply[1].user
       IN /\ r \in DOMAIN runs
          /\ reply[1].body.run = runs[r]
          /\ runs[r].user_id = u
          /\ runs[r].status = "active"
          /\ runs[r].state.room = 0
          /\ runs[r].outcome = Null
          /\ \E c \in characters :
               c.id = runs[r].character_id /\ c.user_id = u /\ c.day_key = today
          /\ EncountersOf(r) = {EncounterRow(r, 0, "fight")}
          /\ CopiesIn(EncounterRow(r, 0, "fight"), encounters) = 1
  /\ IsReply("start", 400) =>
       /\ ~HasCharacterToday(reply[1].user)
       /\ reply[1].body = [error |-> "NO_TODAY_CHARACTER"]

\* C8, the refusal: a start of a user without a character of today is answered 400
\* in the step it arrives, and no run and no encounter is created.
C8_Steps ==
  \A u \in Users :
    (StartArrives(u) /\ ~HasCharacterToday(u)) =>
      /\ reply' # Null
      /\ reply'[1].code = 400
      /\ req' = req
      /\ runs' = runs
      /\ encounters' = encounters

\* C8 as stated: the run a start creates is bound to the character of the UTC
\* day that is current when the start is answered.
C8_StartRun == [](C8_Reply) /\ [][C8_Steps]_vars

\* A step of the /runs/start handler in slot q that is at pc.
StartStep(q, pc) == req[q].op = "start" /\ req[q].pc = pc /\ req'[q] # req[q]

\* The reply of a successful start without the day: the new run is active, room
\* 0, no outcome, owned by the caller and bound to a character of the caller
\* that was generated no later than today; one encounter, of index 0.
C8_ReplyRun ==
  /\ IsReply("start", 200) =>
       LET r == reply[1].run_id
           u == reply[1].user
       IN /\ r \in DOMAIN runs
          /\ reply[1].body.run = runs[r]
          /\ runs[r].user_id = u
          /\ runs[r].status = "active"
          /\ runs[r].state.room = 0
          /\ runs[r].outcome = Null
          /\ \E c \in characters :
               c.id = runs[r].character_id /\ c.user_id = u /\ c.day_key <= today
          /\ EncountersOf(r) = {EncounterRow(r, 0, "fight")}
          /\ CopiesIn(EncounterRow(r, 0, "fight"), encounters) = 1
  /\ IsReply("start", 400) =>
       /\ ~HasCharacterToday(reply[1].user)
       /\ reply[1].body = [error |-> "NO_TODAY_CHARACTER"]

\* The day of the character: a start that arrives for a user with a character
\* of today takes that row and writes nothing yet; the insert that follows binds
\* the new run to the row taken, whatever the date has become, and the last
\* step adds the encounter of index 0 and replies the run inserted.
C8_BindSteps ==
  /\ \A u \in Users :
       (StartArrives(u) /\ HasCharacterToday(u)) =>
         \E q \in Req :
           /\ req[q].pc = "idle"
           /\ req'[q].pc = "start_insert_run"
           /\ req'[q].user = u
           /\ req'[q].ch # Null
           /\ req'[q].ch[1] \in characters
           /\ req'[q].ch[1].user_id = u
           /\ req'[q].ch[1].day_key = today
           /\ reply' = Null
           /\ UNCHANGED dbVars
  /\ \A q \in Req :
       StartStep(q, "start_insert_run") =>
         /\ lastRunId' = lastRunId + 1
         /\ DOMAIN runs' = DOMAIN runs \cup {lastRunId'}
         /\ \A r \in DOMAIN runs : runs'[r] = runs[r]
         /\ runs'[lastRunId'].character_id = req[q].ch[1].id
         /\ runs'[lastRunId'].user_id = req[q].user
         /\ req'[q].pc = "start_insert_encounter"
         /\ req'[q].run_id = lastRunId'
         /\ reply' = Null
         /\ UNCHANGED <<characters, encounters, wallets, transactions>>
  /\ \A q \in Req :
       StartStep(q, "start_insert_encounter") =>
         /\ encounters' = encounters (+) SetToBag({EncounterRow(req[q].run_id, 0, "fight")})
         /\ reply' # Null
         /\ reply'[1].op = "start" /\ reply'[1].code = 200
         /\ reply'[1].run_id = req[q].run_id
         /\ UNCHANGED <<characters, runs, wallets, transactions>>

\* C8, amended: with requests handled one at a time, a start creates a run that
\* is active, in room 0, without outcome, owned by the caller and bound to the
\* character the caller had for the UTC day on which the start selected it (the
\* day of the reply unless midnight passed in between), with exactly one
\* encounter, of index 0; a start that finds no character of the day it
\* arrives on is answered 400 and creates no run and no encounter.
C8_StartRunDayOfSelect == [](C8_ReplyRun) /\ [][C8_Steps /\ C8_BindSteps]_vars

\* A run has just been started on day 2 by a user who also has a character of day 1.
C8_Witness ==
  /\ IsReply("start", 200)
  /\ today = 2
  /\ \E c \in characters : c.user_id = reply[1].user /\ c.day_key = 1

\* Midnight passed while a start was handled: the start is answered on day 2
\* with a run bound to the character of day 1, and the user has no character of
\* day 2.
C8_WitnessMidnight ==
  /\ IsReply("start", 200)
  /\ today = 2
  /\ ~HasCharacterToday(reply[1].user)
  /\ \E c \in characters :
       c.id = runs[reply[1].run_id].character_id /\ c.day_key = 1

\* --------------------------------------------------------------- C9, C10
\* floor(x / 3) and ceil(3 b / 4) by their defining inequalities.
FloorThird(x) == CHOOSE k \in (0 - (MaxLuck + 2))..(MaxLuck + 2) : 3 * k <= x /\ x < 3 * k + 3

CeilOfThreeQuarters(b) == CHOOSE n \in 0..b : 4 * n >= 3 * b /\ 4 * (n - 1) < 3 * b

Clamp(x, lo, hi) == IF x < lo THEN lo ELSE IF x > hi THEN hi ELSE x

\* C9: for integer stats and every roll in [0, 100), damageFormula returns
\* crit = (roll < min(30, max(0, crit))) and
\* damage = max(1, atk) + floor(luck / 3) + (crit ? ceil(0.75 * max(1, atk)) : 0).
C9_DamageFormula ==
  attack # Null =>
    LET st   == attack[1].stats
        res  == attack[1].result
        base == IF st.atk >= 1 THEN st.atk ELSE 1
        crit == attack[1].roll < Clamp(st.crit, 0, 30)
    IN /\ res.crit = crit
       /\ res.damage = base + FloorThird(st.luck) + (IF crit THEN CeilOfThreeQuarters(base) ELSE 0)

\* A critical hit with atk 5 (0.75 * 5 is no integer) and a negative luck.
C9_Witness ==
  /\ attack # Null
  /\ attack[1].result.crit
  /\ attack[1].stats.atk = 5
  /\ attack[1].stats.luck = -1
  /\ attack[1].result.damage = 5 - 1 + 4

\* C10: with crit <= 0 no roll crits; with luck 0 there is no bonus; and
\* {atk 10, crit 0, luck 0} always yields damage 10 and crit false.
C10_NoCritAtZero ==
  attack # Null =>
    LET st == attack[1].stats
        res == attack[1].result
    IN /\ st.crit <= 0 => res.crit = FALSE
       /\ (st.luck = 0 /\ ~res.crit) => res.damage = (IF st.atk >= 1 THEN st.atk ELSE 1)
       /\ (st.atk = 10 /\ st.crit = 0 /\ st.luck = 0) => res = [damage |-> 10, crit |-> FALSE]

\* {atk 10, crit 0, luck 0} with the lowest roll, 0.
C10_Witness ==
  /\ attack # Null
  /\ attack[1].stats = [atk |-> 10, crit |-> 0, luck |-> 0]
  /\ attack[1].roll = 0

\* ---------------------------------------------------------------- C11
\* C11: the crit chance is capped at 30: for every atk, luck and roll, the
\* result for a crit of 30 or more (999 included) is the result for crit = 30,
\* and a roll of 30 or more never crits, whatever the stats.
C11_CritCap ==
  attack # Null =>
    LET st  == attack[1].stats
        res == attack[1].result
    IN /\ st.crit >= CritCap => res = damageFormula([st EXCEPT !.crit = CritCap], attack[1].roll)
       /\ st.crit >= CritCap => res.crit = (attack[1].roll < 30)
       /\ attack[1].roll >= 30 => res.crit = FALSE

\* crit 999 with a roll of 30, the lowest roll that must not crit.
C11_Witness ==
  /\ attack # Null
  /\ attack[1].stats.crit = 999
  /\ attack[1].roll = 30
  /\ attack[1].result.crit = FALSE

\* ---------------------------------------------------------------- C12
RECURSIVE SumDamage(_, _)
SumDamage(rows, bag) ==
  IF rows = {} THEN 0
  ELSE LET r == CHOOSE x \in rows : TRUE
       IN r.damage * CopiesIn(r, bag) + SumDamage(rows \ {r}, bag)

\* The damage logged against boss b.
LoggedDamage(b) == SumDamage({r \in BagToSet(boss_damage) : r.live_boss_id = b}, boss_damage)

\* Request q takes the step that leaves program counter pc.
StepFrom(q, pc) == req[q].pc = pc /\ req'[q].pc # pc

C12_Range ==
  \A b \in BossIds :
    /\ live_bosses[b].hp >= 0
    /\ live_bosses[b].hp <= live_bosses[b].max_hp
    /\ AllQuiet =>
         live_bosses[b].hp = (IF LoggedDamage(b) >= live_bosses[b].max_hp THEN 0
                              ELSE live_bosses[b].max_hp - LoggedDamage(b))

C12_Steps ==
  /\ \A b \in BossIds :
       /\ live_bosses'[b].hp <= live_bosses[b].hp
       /\ live_bosses'[b].max_hp = live_bosses[b].max_hp
       /\ live_bosses'[b].hp # live_bosses[b].hp =>
            \E q \in Req : StepFrom(q, "attack_update_hp") /\ req[q].boss_id = b
  /\ boss_damage' # boss_damage => \E q \in Req : StepFrom(q, "attack_insert_damage")
  /\ \A q \in Req :
       /\ StepFrom(q, "attack_update_hp") =>
            LET b == req[q].boss_id
                d == req[q].hit[1].damage
            IN /\ live_bosses'[b].hp = (IF live_bosses[b].hp >= d THEN live_bosses[b].hp - d ELSE 0)
               /\ req'[q].pc = "attack_insert_damage"
               /\ req'[q].hit = req[q].hit
       /\ StepFrom(q, "attack_insert_damage") =>
            boss_damage' = boss_damage (+) SetToBag({[live_boss_id |-> req[q].boss_id,
                              user_id |-> req[q].user, damage |-> req[q].hit[1].damage]})

\* C12: each boss attack sets the boss hp to max(0, hp - damage) and then logs
\* one damage record (boss, user, damage); under any interleaving of attacks
\* by any users the hp stays within 0..max_hp, never increases, and with no
\* request in flight is max(0, max_hp - the damage logged).
C12_BossHp == [](C12_Range) /\ [][C12_Steps]_vars

\* Both users have attacked, more damage is logged than the boss had hp, and hp is 0.
C12_Witness ==
  /\ AllQuiet
  /\ live_bosses["b1"].hp = 0
  /\ LoggedDamage("b1") > live_bosses["b1"].max_hp
  /\ \A u \in Users : \E r \in BagToSet(boss_damage) : r.user_id = u

\* ---------------------------------------------------------------- C13
\* C13: with requests handled one at a time, once an attack request has been
\* answered the boss is defeated exactly if its hp is 0; the attack that brings
\* hp to 0 marks the boss defeated and says so in its reply; and a boss with
\* hp > 0 is never marked defeated, not even while a request is in flight.
C13_DefeatedIffDead ==
  /\ \A b \in BossIds :
       /\ live_bosses[b].status \in {"active", "defeated"}
       /\ live_bosses[b].status = "defeated" => live_bosses[b].hp = 0
       /\ AllQuiet => (live_bosses[b].status = "defeated" <=> live_bosses[b].hp = 0)
  /\ IsReply("attack", 200) =>
       /\ reply[1].body.boss.defeated = (reply[1].body.boss.hp = 0)
       /\ reply[1].body.boss.defeated = (live_bosses["b1"].status = "defeated")

\* The attack that killed the boss has been answered: defeated, hp 0.
C13_Witness ==
  /\ IsReply("attack", 200)
  /\ reply[1].body.boss.defeated
  /\ live_bosses["b1"].status = "defeated"
  /\ live_bosses["b1"].hp = 0

\* ---------------------------------------------------------------- C14
\* C14: under any interleaving of attack requests on the same boss, no request
\* executes its hp update or its damage insert on a boss that is already marked
\* defeated.
C14_AtomicDefeat ==
  [][\A q \in Req :
       (StepFrom(q, "attack_update_hp") \/ StepFrom(q, "attack_insert_damage")) =>
          live_bosses[req[q].boss_id].status # "defeated"]_vars

\* ---------------------------------------------------------------- C15
\* C15: generateDailyCharacter is a function of its seed: over all calls run,
\* draw by draw, in any order and with any other seeds before or in between,
\* two calls with the same seed returned the same archetype, the same six
\* stats and the same passive; a call starts its generator from its seed alone,
\* whatever state the calls before it left behind.
C15_Deterministic ==
  /\ \A p1, p2 \in generated : p1[1] = p2[1] => p1[2] = p2[2]
  /\ gen # Null => <<gen[1].seed, gen[1].out>> \in generated
  /\ call # Null =>
       /\ call[1].t = StateAfter(State(ShiftRightU(Num(call[1].seed), 0)), Len(call[1].draws))
       /\ \A p \in generated :
            (p[1] = call[1].seed /\ Len(call[1].draws) = DrawsPerCall) =>
               p[2] = CharacterFromDraws(call[1].draws)

\* Seed 7 has been used again after calls with at least two other seeds.
C15_Witness ==
  /\ gen # Null
  /\ gen[1].repeat
  /\ gen[1].seed = 7
  /\ Cardinality(generated) >= 3

\* ---------------------------------------------------------------- C16
\* C16: every generated character has crit >= 0 and luck >= 0.  The rolls
\* randInt(r, -3, 5) are -3 for the lowest and 5 for the highest draw, and the
\* floored stat is >= 0 for every archetype and every roll in between.
C16_StatFloor ==
  /\ \A p \in generated : p[2].stats.crit >= 0 /\ p[2].stats.luck >= 0
  /\ randInt(<<0, 0>>, -3, 5) = -3
  /\ randInt(<<65535, 65535>>, -3, 5) = 5
  /\ \A i \in DOMAIN ARCHETYPES : \A offset \in -3..5 :
       /\ StatFloor(ARCHETYPES[i].base.crit + offset) >= 0
       /\ StatFloor(ARCHETYPES[i].base.luck + offset) >= 0

\* Seed 6: both crit and luck roll -3, the character has crit 2 and luck 6.
C16_Witness ==
  /\ gen # Null
  /\ gen[1].seed = 6
  /\ gen[1].out.archetype_id = "BEREHYNIA"
  /\ gen[1].out.stats.crit = 2
  /\ gen[1].out.stats.luck = 6

\* ---------------------------------------------------------------- C18
\* C18: for every seed and every draw, the integer that is divided by
\* 4294967296 lies in 0..2^32-1 (both 16-bit halves in 0..65535), so the value
\* returned lies in [0, 1).
C18_DrawRange ==
  (prng # Null /\ prng[1].out # Null) =>
     /\ prng[1].out[1][1] \in 0..65535
     /\ prng[1].out[1][2] \in 0..65535

\* The last draw of a generator, with a numerator of 2^31 or more.
C18_Witness ==
  /\ prng # Null
  /\ prng[1].n = MaxDraws
  /\ prng[1].out # Null
  /\ prng[1].out[1][1] >= 32768

\* ---------------------------------------------------------------- C21
\* The algorithm as specified: a 32-bit state, wrapping addition, wrapping
\* multiplies, every intermediate value an unsigned 32-bit integer <<hi, lo>>.
Mask32(a) == <<a[1] % 65536, a[2]>>
UXor(a, b) == <<Xor16(a[1], b[1], 16), Xor16(a[2], b[2], 16)>>
UOr(a, b) == <<Or16(a[1], b[1], 16), Or16(a[2], b[2], 16)>>
UShr(a, d) == <<a[1] \div d, (a[1] % d) * (65536 \div d) + a[2] \div d>>
UAdd(a, b) == Mask32(<<a[1] + b[1] + ((a[2] + b[2]) \div 65536), (a[2] + b[2]) % 65536>>)
UMul(a, b) ==
  LET low == MulHalf(a[2], b[2])
  IN Mask32(<<low[1] + MulHalf(a[1], b[2])[2] + MulHalf(a[2], b[1])[2], low[2]>>)

\* The specified state after n calls on a seed in 0..2^32-1: n wrapping additions.
WrappingState(seed, n) == Word(PlusIncrements(State(Num(seed)), n))

\* The numerator the specified algorithm returns in state t.
WrappingNumerator(t) ==
  LET x1 == UMul(UXor(t, UShr(t, 32768)), UOr(t, <<0, 1>>))
      x2 == UXor(x1, UAdd(x1, UMul(UXor(x1, UShr(x1, 128)), UOr(x1, <<0, 61>>))))
  IN UXor(x2, UShr(x2, 16384))

\* The draws made while the closure's t is below 2^53 (q < 2^21).
C21_Exact == prng # Null /\ prng[1].out # Null /\ prng[1].seed >= 0 /\ prng[1].t[1] < 2097152

\* C21: for every seed of the unsigned 32-bit range and every draw index n,
\* the n-th value of the implemented generator is the n-th value of the
\* specified algorithm that keeps a 32-bit state with wrapping arithmetic.
C21_MatchesWrapping ==
  (prng # Null /\ prng[1].out # Null /\ prng[1].seed >= 0) =>
     prng[1].out[1] = WrappingNumerator(WrappingState(prng[1].seed, prng[1].n))

\* The part that holds: the values agree for every draw made while t is below 2^53.
C21_MatchesBelowTwo53 ==
  C21_Exact => prng[1].out[1] = WrappingNumerator(WrappingState(prng[1].seed, prng[1].n))

\* ---------------------------------------------------------------- C19
\* C19: a seed that is not an unsigned 32-bit integer is rejected: no generator
\* is ever made from a seed below 0.
C19_InvalidSeedRejected == prng # Null => prng[1].seed >= 0

\* ---------------------------------------------------------------- C17
CharacterOps == {"me", "generate", "equipment"}

TodayCharactersOf(u) == {c \in characters : c.user_id = u /\ c.day_key = today}

\* At most one character row per user and day; a reply that carries a character
\* carries the row of the user and today: the same id, stats_seed and
\* generated_stats (for /equipment, which sends the id only, the same id).
C17_Characters ==
  /\ \A u \in Users : Cardinality(TodayCharactersOf(u)) <= 1
  /\ (reply # Null /\ reply[1].op \in CharacterOps /\ reply[1].code = 200) =>
        /\ TodayCharactersOf(reply[1].user) # {}
        /\ LET ch == CHOOSE c \in TodayCharactersOf(reply[1].user) : TRUE
           IN IF reply[1].op = "equipment" THEN reply[1].body.character_id = ch.id
              ELSE /\ reply[1].body.character = ch
                   /\ generated_stats(reply[1].body.character) = generated_stats(ch)

\* Every reply to one of the three routes, sent by a user that exists, carries
\* the character.
C17_Replies ==
  (reply # Null /\ reply[1].op \in CharacterOps /\ reply[1].user \in Users) =>
     reply[1].code = 200

\* No row is ever changed or removed, and a generate request whose select
\* runs when the character exists returns it with already = true and writes
\* nothing.
C17_Steps ==
  /\ characters \subseteq characters'
  /\ \A q \in Req :
       (TodayCharactersOf(req[q].user) # {} /\ req[q].op = "generate"
          /\ req[q].pc = "char_select" /\ req'[q] # req[q]) =>
            /\ reply' # Null /\ reply'[1].op = "generate" /\ reply'[1].user = req[q].user
            /\ reply'[1].code = 200
            /\ reply'[1].body.already = TRUE
            /\ reply'[1].body.character \in TodayCharactersOf(req[q].user)
            /\ characters' = characters

\* C17: within one UTC day, under any interleaving of /me, /equipment and
\* non-forced /characters/generate requests, at most one character row exists
\* per (user, day), every response carries that character, and a generate
\* request that finds a character returns it unchanged.
C17_OneCharacterPerDay == [](C17_Characters /\ C17_Replies) /\ [][C17_Steps]_vars

\* The part of C17 about the character rows and the replies that carry one.
C17_CharacterPart == [](C17_Characters) /\ [][C17_Steps]_vars

\* ---------------------------------------------------------------- C20
\* The step in which a /runs/finish request of user u for run rid is answered.
FinishArrives(u, rid) ==
  /\ reply' # Null /\ reply'[1].op = "finish"
  /\ reply'[1].user = u /\ reply'[1].run_id = rid

\* The step is taken by a handler of user u, or is a reply to u.
StepOf(u) ==
  \/ \E q \in Req : req'[q] # req[q] /\ (req[q].user = u \/ req'[q].user = u)
  \/ req' = req /\ reply' # Null /\ reply'[1].user = u

C20_Steps ==
  /\ \A u \in Users, rid \in DOMAIN runs :
       ((ActArrives(u, rid) \/ FinishArrives(u, rid)) /\ runs[rid].user_id # u) =>
          /\ reply' # Null
          /\ reply'[1].code = 404
          /\ reply'[1].body = [error |-> "RUN_NOT_FOUND"]
          /\ req' = req
          /\ okActs' = okActs
          /\ UNCHANGED dbVars
  /\ \A rid \in DOMAIN runs :
       (\/ runs'[rid] # runs[rid]
        \/ \E e \in BagToSet(encounters') :
              e.run_id = rid /\ CopiesIn(e, encounters') # CopiesIn(e, encounters)) =>
          StepOf(runs[rid].user_id)
  /\ \A u \in Users, c \in {"gold", "dust", "shards"} :
       (<<u, c>> \in DOMAIN wallets /\ wallets'[<<u, c>>] # wallets[<<u, c>>]) => StepOf(u)

\* C20: an act or /runs/finish request that names a run of another user is
\* answered 404 RUN_NOT_FOUND and changes no table; under any interleaving,
\* a run and its encounters are changed only by steps of requests of its owner,
\* and a wallet only by steps of requests of its user.
C20_Ownership == [][C20_Steps]_vars

\* An act of another user on a run in progress (room 2) has just been refused.
C20_Witness ==
  /\ IsReply("act", 404)
  /\ reply[1].run_id \in DOMAIN runs
  /\ runs[reply[1].run_id].user_id # reply[1].user
  /\ runs[reply[1].run_id].state.room = 2
  /\ runs[reply[1].run_id].status = "active"

\* ---------------------------------------------------------------- C22
\* randInt(r, -3, 5) on every value of the upper half of the numerator, with
\* the lowest and the highest lower half.
C22_RandIntRange ==
  \A hi \in 0..65535 : \A lo \in {0, 65535} : randInt(<<hi, lo>>, -3, 5) \in -3..5

UnflooredStats == {"hp", "atk", "def", "spd"}
FlooredStats == {"crit", "luck"}

\* C22: every generated character has the id of one of the 4 catalog entries,
\* hp, atk, def and spd are that entry's base value plus an integer of -3..5,
\* crit and luck the base value plus an integer of -3..5 floored at 0, and
\* randInt(r, -3, 5) has no value outside -3..5.
C22_RolledStats ==
  /\ C22_RandIntRange
  /\ Len(ARCHETYPES) = 4
  /\ \A p \in generated : \E i \in DOMAIN ARCHETYPES :
       /\ p[2].archetype_id = ARCHETYPES[i].id
       /\ \A f \in UnflooredStats : p[2].stats[f] - ARCHETYPES[i].base[f] \in -3..5
       /\ \A f \in FlooredStats :
            \E o \in -3..5 : p[2].stats[f] = Max(0, ARCHETYPES[i].base[f] + o)

\* Seed 1: BEREHYNIA with hp rolled -3 and def and spd rolled +5.
C22_Witness ==
  /\ gen # Null
  /\ gen[1].seed = 1
  /\ gen[1].out.archetype_id = "BEREHYNIA"
  /\ gen[1].out.stats.hp = 107
  /\ gen[1].out.stats.def = 17
  /\ gen[1].out.stats.spd = 15

\* ---------------------------------------------------------------- C23
\* C23 as stated: some seed gives a negative hp, atk, def or spd.  Once every
\* seed has been called, one of the characters generated has a negative stat,
\* or else some catalog entry has one with some roll of -3..5.
C23_NegativeStatExists ==
  ({p[1] : p \in generated} = SeedArgs) =>
     \/ \E p \in generated : \E f \in UnflooredStats : p[2].stats[f] < 0
     \/ \E i \in DOMAIN ARCHETYPES : \E f \in UnflooredStats : \E o \in -3..5 :
          ARCHETYPES[i].base[f] + o < 0

\* C23, amended: with the catalog of the code and rolls of -3..5 no generated
\* hp, atk, def or spd is negative: the lowest value a stat can take is 4 (def
\* of MOLFAR, 7 - 3), and every generated character has hp >= 92, atk >= 9,
\* def >= 4 and spd >= 7.
C23_NoNegativeStat ==
  /\ \A i \in DOMAIN ARCHETYPES : \A f \in UnflooredStats : \A o \in -3..5 :
       ARCHETYPES[i].base[f] + o >= 4
  /\ \A p \in generated :
       /\ p[2].stats.hp >= 92
       /\ p[2].stats.atk >= 9
       /\ p[2].stats.def >= 4
       /\ p[2].stats.spd >= 7

\* Seed 0: MOLFAR, the entry with the lowest hp and def, with hp rolled -3.
C23_Witness ==
  /\ gen # Null
  /\ gen[1].seed = 0
  /\ gen[1].out.archetype_id = "MOLFAR"
  /\ gen[1].out.stats.hp = 92
  /\ gen[1].out.stats.def = 5

\* ---------------------------------------------------------------- C24
\* C24: with /runs/act requests interleaving, whenever no handler is in flight
\* every run has a room counter in 0..5, is finished exactly when the counter
\* is 5, and a finished run's outcome records rooms = 5.
C24_RoomCounter ==
  AllQuiet =>
    \A rid \in DOMAIN runs :
      /\ runs[rid].state.room \in 0..COMPLETION_THRESHOLD
      /\ runs[rid].status = "finished" <=> runs[rid].state.room = COMPLETION_THRESHOLD
      /\ runs[rid].status = "finished" =>
            runs[rid].outcome # Null /\ runs[rid].outcome[1].rooms = COMPLETION_THRESHOLD

\* The three parts on their own.
C24_RoomInRange ==
  AllQuiet => \A rid \in DOMAIN runs : runs[rid].state.room \in 0..COMPLETION_THRESHOLD

C24_FinishedIffFive ==
  AllQuiet => \A rid \in DOMAIN runs :
    runs[rid].status = "finished" <=> runs[rid].state.room = COMPLETION_THRESHOLD

C24_OutcomeRooms ==
  AllQuiet => \A rid \in DOMAIN runs :
    runs[rid].status = "finished" =>
      runs[rid].outcome # Null /\ runs[rid].outcome[1].rooms = COMPLETION_THRESHOLD

\* ---------------------------------------------------------------- C25
\* The indices of the encounters of run r.
EncounterIndices(r) == {e.idx : e \in EncountersOf(r)}

\* After any sequence of start and act calls (no handler in flight): an active
\* run with room counter r has the indices 0..r, a finished run 0..4, one row each.
C25_Indices ==
  AllQuiet =>
    \A r \in DOMAIN runs :
      /\ EncounterIndices(r) =
            (IF runs[r].status = "finished" THEN 0..(COMPLETION_THRESHOLD - 1)
             ELSE 0..runs[r].state.room)
      /\ \A e \in EncountersOf(r) : CopiesIn(e, encounters) = 1
      /\ \A e1, e2 \in EncountersOf(r) : e1.idx = e2.idx => e1 = e2

\* No step removes or changes an encounter: every row stays, with its copies.
C25_AppendOnly ==
  \A e \in BagToSet(encounters) : CopiesIn(e, encounters') >= CopiesIn(e, encounters)

\* C25: with requests handled one at a time, the encounter log of a run is
\* append-only with distinct, contiguous indices: an active run with room
\* counter r has exactly the encounters 0..r, one each, a finished run exactly
\* 0..4, and no step modifies or removes an encounter.
C25_EncounterLog == [](C25_Indices) /\ [][C25_AppendOnly]_vars

\* A finished run and an active run in room 2, with 5 and 3 encounters.
C25_Witness ==
  /\ AllQuiet
  /\ \E r1, r2 \in DOMAIN runs :
       /\ runs[r1].status = "finished"
       /\ Cardinality(EncountersOf(r1)) = COMPLETION_THRESHOLD
       /\ runs[r2].status = "active"
       /\ runs[r2].state.room = 2
       /\ Cardinality(EncountersOf(r2)) = 3

\* ---------------------------------------------------------------- C26
\* C26: every character row is consistent with its seed: generated_stats is
\* generateDailyCharacter(stats_seed) and archetype is its archetype_id, with
\* creations that conflict and forced rerolls interleaving in any way.
C26_RowMatchesSeed ==
  \A c \in characters :
    /\ c.stats_seed \in SeedArgs
    /\ c.generated_stats = GenerateArgs[c.stats_seed]
    /\ c.archetype = GenerateArgs[c.stats_seed].archetype_id

\* Two forced rerolls of one user have been paid for and answered, and one row
\* has been inserted for them: the insert of the second met the row of the
\* first, and its reply carries that row.
C26_Witness ==
  /\ AllQuiet
  /\ IsReply("generate_force", 200)
  /\ ShardsBalance(reply[1].user) = StarterShards - 2 * RerollCost
  /\ reply[1].user \in inventories
  /\ lastCharId[reply[1].user] = 2
  /\ reply[1].body.character \in characters

\* ---------------------------------------------------------------- C27
\* The character rows of user u and today among the rows chs, and the shards
\* of user u in the wallets w.
TodayAmong(chs, u) == {c \in chs : c.user_id = u /\ c.day_key = today}
ShardsIn(w, u) == IF <<u, "shards">> \in DOMAIN w THEN w[<<u, "shards">>] ELSE 0

\* The step of request slot q from program counter pc.
ForceStep(q, pc) ==
  req[q].op = "generate_force" /\ req[q].pc = pc /\ req'[q] # req[q]

\* The steps of a forced /characters/generate, with requests handled one at a
\* time, so that the steps of a request follow one another.
C27_Steps ==
  \A q \in Req :
    LET u == req[q].user IN
    \* the request arrives, then the character of today is read: nothing is
    \* written
    /\ (req[q].pc = "idle" /\ req'[q].op = "generate_force") =>
          /\ UNCHANGED dbVars
          /\ req'[q].pc = "char_select"
    /\ ForceStep(q, "char_select") =>
          /\ UNCHANGED dbVars
          /\ req'[q].ch = getTodayCharacter(u, today)
          /\ req'[q].pc = IF req'[q].ch # Null THEN "force_select_wallet" ELSE "char_insert"
    \* a character exists and the balance is below the cost: NOT_ENOUGH_SHARDS,
    \* no wallet and no character changed, the character still there
    /\ (ForceStep(q, "force_select_wallet") /\ ShardsBalance(u) < RerollCost) =>
          /\ reply' # Null /\ reply'[1].op = "generate_force" /\ reply'[1].code = 402
          /\ reply'[1].body = [error |-> "NOT_ENOUGH_SHARDS"]
          /\ UNCHANGED dbVars
          /\ TodayAmong(characters', u) = {req[q].ch[1]}
    \* the balance is at least the cost: the request goes on, nothing written yet
    /\ (ForceStep(q, "force_select_wallet") /\ ShardsBalance(u) >= RerollCost) =>
          /\ req'[q].pc = "force_update_wallet"
          /\ UNCHANGED dbVars
    \* exactly the cost is deducted, from the shards of the user alone
    /\ ForceStep(q, "force_update_wallet") =>
          /\ ShardsIn(wallets', u) = ShardsBalance(u) - RerollCost
          /\ ShardsIn(wallets', u) >= 0
          /\ DOMAIN wallets' = DOMAIN wallets
          /\ \A k \in DOMAIN wallets : k # <<u, "shards">> => wallets'[k] = wallets[k]
          /\ UNCHANGED characters
    \* the old row is deleted
    /\ ForceStep(q, "force_delete") =>
          /\ characters' = characters \ {req[q].ch[1]}
          /\ req[q].ch[1] \in characters
          /\ UNCHANGED wallets
    \* the new row is inserted: one character for (user, day), a row other
    \* than the old one; nothing is charged in this step or a later one, so
    \* that a request that found no character is charged nothing at all
    /\ ForceStep(q, "char_insert") =>
          /\ req'[q].pc = "char_insert_slot"
          /\ TodayAmong(characters', u) = {req'[q].ch[1]}
          /\ req'[q].ch[1] \notin characters
          /\ req[q].ch # Null => req'[q].ch[1].id # req[q].ch[1].id
          /\ \A c \in characters' : c.user_id # u => c \in characters
          /\ UNCHANGED wallets
    \* the slots of the new row are inserted, and after the last one the row
    \* is returned
    /\ ForceStep(q, "char_insert_slot") =>
          /\ UNCHANGED dbVars
          /\ TodayAmong(characters, u) = {req[q].ch[1]}
          /\ IF req[q].slot < Len(slots) THEN reply' = Null /\ req'[q].pc = "char_insert_slot"
             ELSE /\ reply' # Null /\ reply'[1].op = "generate_force" /\ reply'[1].code = 200
                  /\ reply'[1].body.already = FALSE
                  /\ reply'[1].body.character = req[q].ch[1]

\* Whenever no handler is in flight, a user's shards are the starter shards
\* less the cost of every replacement made, and rows are replaced one at a time:
\* StarterShards - balance = RerollCost * (rows ever inserted - 1).
C27_Charged ==
  AllQuiet =>
    \A u \in Users :
      /\ Cardinality(TodayCharactersOf(u)) <= 1
      /\ (u \in inventories /\ lastCharId[u] >= 1) =>
            StarterShards - ShardsBalance(u) = RerollCost * (lastCharId[u] - 1)
      /\ u \notin inventories => lastCharId[u] <= 1 /\ <<u, "shards">> \notin DOMAIN wallets

\* C27: with requests handled one at a time, a forced /characters/generate
\* with a character of today and fewer than 2 shards is answered 402
\* NOT_ENOUGH_SHARDS and changes neither wallet nor character; with at least 2
\* shards it deducts exactly 2 and replaces the character, one character being
\* left for (user, day); without a character of today nothing is charged.
C27_CostGate == [](C27_Charged) /\ [][C27_Steps]_vars

\* A forced reroll has just replaced the first character of a user with 10 shards.
C27_Witness ==
  /\ IsReply("generate_force", 200)
  /\ ShardsBalance(reply[1].user) = StarterShards - RerollCost
  /\ reply[1].body.character.id = <<reply[1].user, 2>>
  /\ TodayCharactersOf(reply[1].user) = {reply[1].body.character}

\* A forced reroll has just been refused: the user has a character and no shards.
C27_WitnessRefused ==
  /\ IsReply("generate_force", 402)
  /\ TodayCharactersOf(reply[1].user) # {}

\* A forced request without a character of today has just been answered, free of charge.
C27_WitnessFree ==
  /\ IsReply("generate_force", 200)
  /\ reply[1].body.character.id = <<reply[1].user, 1>>
  /\ <<reply[1].user, "shards">> \notin DOMAIN wallets

\* ---------------------------------------------------------------- C28
\* No shards balance is negative; as every user starts with StarterShards and
\* only rerolls charge shards, this is also: the shards deducted from a user
\* never exceed the shards the user had.
C28_NonNegative == \A u \in Users : ShardsBalance(u) >= 0

\* Once every handler has returned, the shards deducted from a user are
\* RerollCost for each character row that replaced another.
C28_DeductionPerReplacement ==
  AllQuiet =>
    \A u \in Users :
      (u \in inventories /\ <<u, "shards">> \in DOMAIN wallets /\ lastCharId[u] >= 1) =>
        StarterShards - ShardsBalance(u) = RerollCost * (lastCharId[u] - 1)

\* C28: with forced rerolls interleaving at every awaited statement, a shards
\* balance is never negative, the shards deducted never exceed the balance
\* there was, and each deduction corresponds to one replaced character.
C28_Shards == C28_NonNegative /\ C28_DeductionPerReplacement

\* ---------------------------------------------------------------- C29
\* The balance of user u in currency c (0 without the row), the battle-pass xp of
\* user u (0 without the row), and the rows of user u that are claimed.
BalanceOf(u, c) == IF <<u, c>> \in DOMAIN wallets THEN wallets[<<u, c>>] ELSE 0
XpOf(u) == IF u \in DOMAIN user_battle_pass THEN user_battle_pass[u] ELSE 0
ClaimedBy(u) ==
  {k \in DOMAIN user_quests : user_quests[k].user_id = u /\ user_quests[k].claimed_at # Null}

\* The sum of the reward component k over the user_quests rows S.
RECURSIVE RewardSum(_, _)
RewardSum(S, k) ==
  IF S = {} THEN 0
  ELSE LET x == CHOOSE x \in S : TRUE
       IN  RewardOf(quest_templates[user_quests[x].quest_template_id].reward, k)
             + RewardSum(S \ {x}, k)

\* C29 (credited at most once): what a user holds in any wallet and in
\* battle-pass xp is at most the rewards of the user's claimed user_quests rows,
\* each counted once, with the handlers interleaving at every awaited statement.
C29_CreditedOnce ==
  \A u \in Users :
    /\ \A c \in {"gold", "dust", "shards"} : BalanceOf(u, c) <= RewardSum(ClaimedBy(u), c)
    /\ XpOf(u) <= RewardSum(ClaimedBy(u), "bp_xp")

\* A claim of a row that is claimed already is answered {ok, already} at once,
\* and that reply changes no wallet, no battle-pass xp and no user_quests row.
C29_AlreadySteps ==
  /\ \A q \in Req :
       (req[q].pc = "idle" /\ req'[q].op = "claim") =>
          user_quests[req'[q].uq[1].id].claimed_at = Null
  /\ (reply' # Null /\ reply'[1].op = "claim" /\ reply'[1].code = 200
        /\ "already" \in DOMAIN reply'[1].body) =>
          /\ reply'[1].body = [ok |-> TRUE, already |-> TRUE]
          /\ UNCHANGED <<wallets, user_battle_pass, user_quests>>
          /\ \A q \in Req : req'[q] = req[q]

\* Both parts of C29 together: the reward of a user_quests row is credited at
\* most once, and a claim of a claimed row returns already=true and changes no
\* wallet and no battle-pass xp.
C29_ClaimOnce == [](C29_CreditedOnce) /\ [][C29_AlreadySteps]_vars

\* With one request at a time: once every handler has returned, a user holds the
\* rewards of the claimed rows exactly, but for battle-pass xp not granted
\* because no season was active.
C29_CreditedExactly ==
  AllQuiet =>
    \A u \in Users :
      /\ \A c \in {"gold", "dust", "shards"} : BalanceOf(u, c) = RewardSum(ClaimedBy(u), c)
      /\ XpOf(u) <= RewardSum(ClaimedBy(u), "bp_xp")

\* A second claim of a row has just been answered already=true; the reward of
\* the row, 60 gold, is held once.
C29_Witness ==
  /\ IsReply("claim", 200)
  /\ "already" \in DOMAIN reply[1].body
  /\ ClaimedBy(reply[1].user) = {<<reply[1].user, "Q_DAILY_RUN", today>>}
  /\ BalanceOf(reply[1].user, "gold") = quest_templates["Q_DAILY_RUN"].reward.gold
  /\ XpOf(reply[1].user) = 0

\* ---------------------------------------------------------------- C30
\* The generator's stats have atk >= 9 and luck >= 0, and on such stats
\* damageFormula returns a damage of at least 1 for every roll.
C30_GeneratorDamage ==
  /\ \A seed \in SeedArgs :
       /\ GenerateArgs[seed].stats.atk >= 9
       /\ GenerateArgs[seed].stats.luck >= 0
       /\ \A roll \in Rolls : damageFormula(GenerateArgs[seed].stats, roll).damage >= 1
  /\ \A atk \in 9..MaxAtk, crit \in CritValues, luck \in 0..MaxLuck, roll \in Rolls :
       damageFormula([atk |-> atk, crit |-> crit, luck |-> luck], roll).damage >= 1

\* The attacks logged on boss b.
AttacksLogged(b) ==
  BagCardinality([r \in {x \in BagToSet(boss_damage) : x.live_boss_id = b} |->
                    CopiesIn(r, boss_damage)])

\* Every hit computed and every damage logged is at least 1, and a boss has
\* taken at most max_hp attacks.
C30_Damage ==
  /\ C30_GeneratorDamage
  /\ \A c \in characters : c.generated_stats.stats.atk >= 9 /\ c.generated_stats.stats.luck >= 0
  /\ \A q \in Req : req[q].hit # Null => req[q].hit[1].damage >= 1
  /\ \A r \in BagToSet(boss_damage) : r.damage >= 1
  /\ \A b \in BossIds : AttacksLogged(b) <= live_bosses[b].max_hp

\* The hp update of an attack on a boss with hp > 0 strictly decreases the hp.
C30_Steps ==
  \A q \in Req :
    (StepFrom(q, "attack_update_hp") /\ live_bosses[req[q].boss_id].hp > 0) =>
       live_bosses'[req[q].boss_id].hp < live_bosses[req[q].boss_id].hp

\* Once a user has a character to attack with and attacks keep arriving, the
\* boss is marked defeated in the end.
C30_EventuallyDefeated ==
  \A b \in BossIds :
    (\E u \in Users : getTodayCharacter(u, today) # Null) ~> (live_bosses[b].status = "defeated")

\* C30: with stats from the character generator (atk >= 9, luck >= 0) every
\* attack deals damage >= 1, each completed attack on a boss with hp > 0
\* strictly decreases its hp, and if attacks keep arriving an active boss is
\* marked defeated in the end, after at most max_hp attacks.
C30_Progress == [](C30_Damage) /\ [][C30_Steps]_vars /\ C30_EventuallyDefeated

\* The boss has been marked defeated by the attack just answered, after
\* several attacks, each of which took hp.
C30_Witness ==
  /\ IsReply("attack", 200)
  /\ reply[1].body.boss.defeated
  /\ live_bosses["b1"].status = "defeated"
  /\ AttacksLogged("b1") >= 2
  /\ AttacksLogged("b1") <= live_bosses["b1"].max_hp
====
